---- MODULE Spec2Model ----
(***************************************************************************)
(* Model of the signal catalog (src/app.py) on its default SQLite store.   *)
(*                                                                         *)
(* The table `signals` is the sequence of its rows in rowid order.  A      *)
(* nullable column holds None (SQL NULL) or Some(v).  Text that is only    *)
(* stored and compared is a TLA+ string; text that is concatenated (the    *)
(* notes column and the note arguments) is a sequence of tokens, the empty *)
(* string being the empty sequence.  A timestamp string produced by        *)
(* utc_now() is the integer tick it denotes (the format is fixed-width and *)
(* order-preserving); the text of the due_date column is the format class  *)
(* of the string and, for a YYYY-MM-DD string, the day it denotes.         *)
(*                                                                         *)
(* One action models one invocation of main(): init_db() followed by the   *)
(* command's handler.  A report command leaves in `report` what it         *)
(* computes for printing.  Spec runs the commands from the empty table;    *)
(* SpecReport runs one report on a table drawn from ReportTables.          *)
(***************************************************************************)
EXTENDS Integers, Sequences, FiniteSets, TLC

\* ------------------------------------------------------------------ bounds
MaxCmds == 2          \* commands issued in one behaviour
MaxClock == 1         \* clock ticks that pass in one behaviour
TicksPerDay == 2      \* clock ticks in one calendar day
StartDay == 14        \* calendar day (of February 2026) of the first state
MaxRows == 2          \* rows of a table drawn for the reports
MaxProcs == 2         \* invocations running at the same time

StartClock == StartDay * TicksPerDay + (TicksPerDay - 1)

\* ------------------------------------------------------- values and columns
None == << >>
Some(v) == << v >>

\* Python truthiness of an optional string whose empty value is `empty`.
Truthy(v, empty) == v # None /\ v[1] # empty

DEFAULT_SEVERITY == "medium"

Severities == {"low", "medium", "high", "critical"}

\* Text of a due date: a YYYY-MM-DD string, the empty string, other text.
DueYmd(day) == [fmt |-> "ymd", day |-> day]
DueEmpty == [fmt |-> "empty", day |-> 0]
DueJunk == [fmt |-> "junk", day |-> 0]

utc_days_ago(clock, days) == clock - days * TicksPerDay

\* A command line that gives no option.
NoOptions == [none |-> TRUE]

VARIABLES signals, lastRowid, now, ncmds, cmd, out, report, procs

vars == << signals, lastRowid, now, ncmds, cmd, out, report, procs >>

\* No command is run step by step.
NoProcs == << >>

\* What a command that is not a report computes for printing.
NoReport == [kind |-> "none"]

Exists(rows, id) == \E i \in 1..Len(rows) : rows[i].id = id

RowOf(rows, id) == rows[CHOOSE i \in 1..Len(rows) : rows[i].id = id]

\* init_db: the additive migration back-fills updated_at from created_at.
init_db(rows) ==
    [i \in 1..Len(rows) |->
        IF rows[i].updated_at = None
        THEN [rows[i] EXCEPT !.updated_at = Some(rows[i].created_at)]
        ELSE rows[i]]

Init ==
    /\ signals = << >>
    /\ lastRowid = 0
    /\ now = StartClock
    /\ ncmds = 0
    /\ cmd = [name |-> "none", id |-> 0, args |-> NoOptions]
    /\ out = "none"
    /\ report = NoReport
    /\ procs = NoProcs

\* Time passes between two invocations.
Tick ==
    /\ now < StartClock + MaxClock
    /\ now' = now + 1
    /\ UNCHANGED << signals, lastRowid, ncmds, cmd, out, report, procs >>

\* Readings of the clock by two successive utc_now() calls of one handler.
ClockReadings ==
    { << now, t2 >> : t2 \in { t \in {now, now + 1} : t <= StartClock + MaxClock } }

\* main(): "init" runs init_db alone.
InitCmd ==
    /\ ncmds < MaxCmds
    /\ signals' = init_db(signals)
    /\ cmd' = [name |-> "init", id |-> 0, args |-> NoOptions]
    /\ report' = NoReport
    /\ UNCHANGED procs
    /\ out' = "Initialized database."
    /\ ncmds' = ncmds + 1
    /\ UNCHANGED << lastRowid, now >>

\* ---------------------------------------------------------------- add
AddArgs ==
    { [title |-> "Portal outage", category |-> None, severity |-> None,
       owner |-> None, due |-> None, notes |-> None, source |-> None,
       tags |-> None],
      [title |-> "Portal outage", category |-> Some("ops"), severity |-> Some("high"),
       owner |-> Some("ana"), due |-> Some(DueYmd(StartDay + 3)),
       notes |-> Some(<<"first report">>), source |-> Some("helpdesk"),
       tags |-> Some("portal")],
      [title |-> "", category |-> Some(""), severity |-> Some("low"),
       owner |-> Some(""), due |-> Some(DueJunk),
       notes |-> Some(<< >>), source |-> None, tags |-> Some("")] }

\* add_signal leaving the severity as given.
NewRowNoDefault(id, args, created_at) ==
    [id |-> id, title |-> args.title, category |-> args.category,
     severity |-> args.severity,
     owner |-> args.owner, due_date |-> args.due, status |-> "open",
     notes |-> args.notes, source |-> args.source, tags |-> args.tags,
     created_at |-> created_at, closed_at |-> None, updated_at |-> Some(created_at)]

\* add_signal leaving updated_at out of its INSERT.
NewRowNullUpdatedAt(id, args, created_at) ==
    [id |-> id, title |-> args.title, category |-> args.category,
     severity |-> IF Truthy(args.severity, "") THEN args.severity ELSE Some(DEFAULT_SEVERITY),
     owner |-> args.owner, due_date |-> args.due, status |-> "open",
     notes |-> args.notes, source |-> args.source, tags |-> args.tags,
     created_at |-> created_at, closed_at |-> None, updated_at |-> None]

\* The row add_signal inserts.
NewRow(id, args, created_at) ==
    [id |-> id, title |-> args.title, category |-> args.category,
     severity |-> IF Truthy(args.severity, "") THEN args.severity ELSE Some(DEFAULT_SEVERITY),
     owner |-> args.owner, due_date |-> args.due, status |-> "open",
     notes |-> args.notes, source |-> args.source, tags |-> args.tags,
     created_at |-> created_at, closed_at |-> None, updated_at |-> Some(created_at)]

AddSignal(args) ==
    /\ ncmds < MaxCmds
    /\ LET rows == init_db(signals)
           created_at == now
       IN  /\ signals' = Append(rows, NewRow(lastRowid + 1, args, created_at))
           /\ lastRowid' = lastRowid + 1
    /\ cmd' = [name |-> "add", id |-> lastRowid + 1, args |-> args]
    /\ report' = NoReport
    /\ UNCHANGED procs
    /\ out' = "Added signal."
    /\ ncmds' = ncmds + 1
    /\ UNCHANGED now

\* A sample row inserted with an empty severity.
SeedRowBlankSeverity(title, category, severity, owner, dueDay, status, notes, source, tags, created_at, closed_at) ==
    [title |-> title, category |-> Some(category), severity |-> Some(""),
     owner |-> Some(owner), due_date |-> Some(DueYmd(dueDay)), status |-> status,
     notes |-> Some(<< notes >>), source |-> Some(source), tags |-> Some(tags),
     created_at |-> created_at, closed_at |-> closed_at]

\* ---------------------------------------------------------------- seed
SeedRow(title, category, severity, owner, dueDay, status, notes, source, tags, created_at, closed_at) ==
    [title |-> title, category |-> Some(category), severity |-> Some(severity),
     owner |-> Some(owner), due_date |-> Some(DueYmd(dueDay)), status |-> status,
     notes |-> Some(<< notes >>), source |-> Some(source), tags |-> Some(tags),
     created_at |-> created_at, closed_at |-> closed_at]

\* seed_rows, the clock read once at `clock`.
seed_rows(clock) ==
    << SeedRow("FAFSA verification delays impacting award timing", "financial_aid",
               "high", "Janelle", 20, "open",
               "Multiple scholars flagged for verification; track impact on March disbursements.",
               "financial aid sync", "fa,disbursement",
               utc_days_ago(clock, 10), None),
       SeedRow("Partner onboarding data feed missing graduation fields", "partner",
               "medium", "Leah", 18, "open",
               "Need schema update request before March intake imports.",
               "partner ops", "onboarding,ops",
               utc_days_ago(clock, 6), None),
       SeedRow("Scholar sentiment dip for virtual advising sessions", "community",
               "medium", "Mina", 25, "open",
               "Survey comments cite scheduling friction; recommend pilot with office hours.",
               "pulse survey", "sentiment,advising",
               utc_days_ago(clock, 4), None),
       SeedRow("Donor Q2 reporting needs updated outcomes highlights", "fundraising",
               "high", "Rico", 22, "open",
               "Prepare 3 new scholar vignettes and updated retention numbers.",
               "fundraising sync", "donor,briefing",
               utc_days_ago(clock, 8), None),
       SeedRow("STEM cohort mentoring slots overbooked", "mentorship",
               "high", "Noah", 15, "open",
               "Waitlist building; consider adding two volunteer mentors.",
               "mentor map", "mentors,capacity",
               utc_days_ago(clock, 12), None),
       SeedRow("Scholar outreach cadence missed for January cohort", "operations",
               "critical", "Avery", 12, "closed",
               "Backfilled touchpoints and updated cadence playbook.",
               "ops retro", "cadence,retention",
               utc_days_ago(clock, 20), Some(utc_days_ago(clock, 5))),
       SeedRow("Scholarship award acceptance rate trending down", "awards",
               "medium", "Priya", 28, "open",
               "Analyze yield vs offer package; coordinate with comms.",
               "award allocator", "yield,analysis",
               utc_days_ago(clock, 7), None),
       SeedRow("Partner renewal risk flagged for Horizon Foundation", "partner",
               "high", "Diego", 19, "open",
               "Need updated impact snapshot ahead of renewal call.",
               "renewal tracker", "renewal,impact",
               utc_days_ago(clock, 9), None) >>

\* The row the INSERT of seed_signals stores for one seed row.
SeededRow(id, row) ==
    [id |-> id, title |-> row.title, category |-> row.category,
     severity |-> row.severity, owner |-> row.owner, due_date |-> row.due_date,
     status |-> row.status, notes |-> row.notes, source |-> row.source,
     tags |-> row.tags, created_at |-> row.created_at,
     closed_at |-> row.closed_at, updated_at |-> Some(row.created_at)]

SeedSignals ==
    /\ ncmds < MaxCmds
    /\ LET rows == init_db(signals)
           seed == seed_rows(now)
       IN  IF Len(rows) > 0
           THEN /\ signals' = rows
                /\ lastRowid' = lastRowid
                /\ out' = "Seed skipped; signals already exist."
           ELSE /\ signals' = [i \in 1..Len(seed) |-> SeededRow(lastRowid + i, seed[i])]
                /\ lastRowid' = lastRowid + Len(seed)
                /\ out' = "Seeded signals."
    /\ cmd' = [name |-> "seed", id |-> 0, args |-> NoOptions]
    /\ report' = NoReport
    /\ UNCHANGED procs
    /\ ncmds' = ncmds + 1
    /\ UNCHANGED now

\* ------------------------------------------------------- close and reopen
\* Ids the commands are addressed to: the first row, the seeded closed row,
\* and an id no row has.
TargetIds == {1, 6, 9}

NoteArgs == { None, Some(<< >>), Some(<< "fixed upstream" >>) }

\* The notes assignment without the COALESCE(notes, '') || prefix.
AppendNotesOverwrites(notes, suffix) == Some(suffix)

\* COALESCE(notes, '') || suffix
AppendNotes(notes, suffix) ==
    Some((IF notes = None THEN << >> ELSE notes[1]) \o suffix)

\* f"\n[Closed] {note}" if note else ""
NoteSuffix(label, note) ==
    IF Truthy(note, << >>) THEN << label >> \o note[1] ELSE << >>

\* close_signal leaving updated_at out of its UPDATE.
ClosedRowStaleUpdatedAt(row, note, t1, t2) ==
    [row EXCEPT !.status = "closed",
                !.closed_at = Some(t1),
                !.notes = AppendNotes(row.notes, NoteSuffix("\n[Closed] ", note))]

\* The UPDATE statement of close_signal keeping a closed_at that is set.
ClosedRowKeepsFirstClose(row, note, t1, t2) ==
    [row EXCEPT !.status = "closed",
                !.closed_at = IF row.closed_at # None THEN row.closed_at ELSE Some(t1),
                !.updated_at = Some(t2),
                !.notes = AppendNotes(row.notes, NoteSuffix("\n[Closed] ", note))]

\* The UPDATE statement of close_signal applied to the addressed row.
ClosedRow(row, note, t1, t2) ==
    [row EXCEPT !.status = "closed",
                !.closed_at = Some(t1),
                !.updated_at = Some(t2),
                !.notes = AppendNotes(row.notes, NoteSuffix("\n[Closed] ", note))]

\* close_signal without its existence check.
CloseSignalUnchecked(signal_id, note) ==
    /\ ncmds < MaxCmds
    /\ \E r \in ClockReadings :
           /\ signals' = [i \in 1..Len(signals) |->
                              IF init_db(signals)[i].id = signal_id
                              THEN ClosedRow(init_db(signals)[i], note, r[1], r[2])
                              ELSE init_db(signals)[i]]
           /\ out' = "Closed signal."
           /\ now' = r[2]
    /\ cmd' = [name |-> "close", id |-> signal_id, args |-> [note |-> note]]
    /\ report' = NoReport
    /\ UNCHANGED procs
    /\ ncmds' = ncmds + 1
    /\ UNCHANGED lastRowid

CloseSignal(signal_id, note) ==
    /\ ncmds < MaxCmds
    /\ LET rows == init_db(signals)
       IN  IF ~Exists(rows, signal_id)
           THEN /\ signals' = rows
                /\ out' = "Signal not found."
                /\ now' = now
           ELSE \E r \in ClockReadings :
                    /\ signals' = [i \in 1..Len(rows) |->
                                       IF rows[i].id = signal_id
                                       THEN ClosedRow(rows[i], note, r[1], r[2])
                                       ELSE rows[i]]
                    /\ out' = "Closed signal."
                    /\ now' = r[2]
    /\ cmd' = [name |-> "close", id |-> signal_id, args |-> [note |-> note]]
    /\ report' = NoReport
    /\ UNCHANGED procs
    /\ ncmds' = ncmds + 1
    /\ UNCHANGED lastRowid

\* reopen_signal leaving closed_at out of its UPDATE.
ReopenedRowKeepsClosedAt(row, note, t) ==
    [row EXCEPT !.status = "open",
                !.updated_at = Some(t),
                !.notes = AppendNotes(row.notes, NoteSuffix("\n[Reopened] ", note))]

\* The UPDATE statement of reopen_signal applied to the addressed row.
ReopenedRow(row, note, t) ==
    [row EXCEPT !.status = "open",
                !.closed_at = None,
                !.updated_at = Some(t),
                !.notes = AppendNotes(row.notes, NoteSuffix("\n[Reopened] ", note))]

ReopenSignal(signal_id, note) ==
    /\ ncmds < MaxCmds
    /\ LET rows == init_db(signals)
       IN  IF ~Exists(rows, signal_id)
           THEN /\ signals' = rows
                /\ out' = "Signal not found."
           ELSE /\ signals' = [i \in 1..Len(rows) |->
                                   IF rows[i].id = signal_id
                                   THEN ReopenedRow(rows[i], note, now)
                                   ELSE rows[i]]
                /\ out' = "Reopened signal."
    /\ cmd' = [name |-> "reopen", id |-> signal_id, args |-> [note |-> note]]
    /\ report' = NoReport
    /\ UNCHANGED procs
    /\ ncmds' = ncmds + 1
    /\ UNCHANGED << lastRowid, now >>

\* ---------------------------------------------------------------- update
NoArgs ==
    [title |-> None, category |-> None, severity |-> None, owner |-> None,
     due |-> None, status |-> None, notes |-> None, append_note |-> None,
     source |-> None, tags |-> None,
     clear_owner |-> FALSE, clear_category |-> FALSE, clear_due |-> FALSE,
     clear_source |-> FALSE, clear_tags |-> FALSE, clear_notes |-> FALSE]

\* Argument lists that give one option, or one option and its clear flag.
OptionWithClear(option, flag, values) ==
    { [NoArgs EXCEPT ![option] = v, ![flag] = b] :
        v \in {None} \cup { Some(x) : x \in values }, b \in BOOLEAN }

NotesArgs ==
    { [NoArgs EXCEPT !.notes = n, !.clear_notes = b, !.append_note = a] :
        n \in { None, Some(<< >>), Some(<< "rewritten" >>) },
        b \in BOOLEAN,
        a \in { None, Some(<< >>), Some(<< "called back" >>) } }

UpdateArgs ==
    OptionWithClear("owner", "clear_owner", {"", "bo"})
    \cup OptionWithClear("category", "clear_category", {"", "policy"})
    \cup OptionWithClear("due", "clear_due", {DueEmpty, DueJunk, DueYmd(StartDay - 1)})
    \cup OptionWithClear("source", "clear_source", {"", "audit"})
    \cup OptionWithClear("tags", "clear_tags", {"", "urgent"})
    \cup NotesArgs
    \cup { [NoArgs EXCEPT !.title = Some(x)] : x \in {"", "Renamed"} }
    \cup { [NoArgs EXCEPT !.severity = Some(x)] : x \in Severities }
    \cup { [NoArgs EXCEPT !.status = Some(x)] : x \in {"open", "closed"} }
    \cup { [NoArgs EXCEPT !.status = Some("closed"), !.append_note = Some(<< "done" >>)],
           [NoArgs EXCEPT !.status = Some("open"), !.owner = Some("bo"),
                          !.clear_category = TRUE] }

\* The checks at the top of update_signal: the message printed, or "" when
\* every check passes.
ValidationMessage(args) ==
    IF Truthy(args.owner, "") /\ args.clear_owner
    THEN "Choose either --owner or --clear-owner, not both."
    ELSE IF Truthy(args.category, "") /\ args.clear_category
    THEN "Choose either --category or --clear-category, not both."
    ELSE IF Truthy(args.due, DueEmpty) /\ args.clear_due
    THEN "Choose either --due or --clear-due, not both."
    ELSE IF Truthy(args.source, "") /\ args.clear_source
    THEN "Choose either --source or --clear-source, not both."
    ELSE IF Truthy(args.tags, "") /\ args.clear_tags
    THEN "Choose either --tags or --clear-tags, not both."
    ELSE IF Truthy(args.notes, << >>) /\ args.clear_notes
    THEN "Choose either --notes or --clear-notes, not both."
    ELSE ""

ValidationMessages ==
    { "Choose either --owner or --clear-owner, not both.",
      "Choose either --category or --clear-category, not both.",
      "Choose either --due or --clear-due, not both.",
      "Choose either --source or --clear-source, not both.",
      "Choose either --tags or --clear-tags, not both.",
      "Choose either --notes or --clear-notes, not both." }

When(cond, column, value) == IF cond THEN << << column, value >> >> ELSE << >>

\* f"\n[Update {date.today().isoformat()}] {args.append_note}"
UpdateStamp(args) == << "\n[Update <today>] " >> \o args.append_note[1]

\* The notes assignment of update_signal, lines 598-605.
NotesAssignment(args, row) ==
    IF args.notes # None
    THEN << << "notes",
               Some(IF Truthy(args.append_note, << >>)
                    THEN args.notes[1] \o UpdateStamp(args)
                    ELSE args.notes[1]) >> >>
    ELSE IF Truthy(args.append_note, << >>)
    THEN << << "notes", AppendNotes(row.notes, UpdateStamp(args)) >> >>
    ELSE << >>

\* update_signal without the else branch that clears closed_at.
UpdatesKeepClosedAt(args, row, closed_at) ==
       When(args.title # None, "title", IF args.title # None THEN args.title[1] ELSE "")
    \o When(args.category # None, "category", args.category)
    \o When(args.clear_category, "category", None)
    \o When(args.severity # None, "severity", args.severity)
    \o When(args.owner # None, "owner", args.owner)
    \o When(args.clear_owner, "owner", None)
    \o When(args.due # None, "due_date", args.due)
    \o When(args.clear_due, "due_date", None)
    \o When(args.source # None, "source", args.source)
    \o When(args.clear_source, "source", None)
    \o When(args.tags # None, "tags", args.tags)
    \o When(args.clear_tags, "tags", None)
    \o When(args.status # None, "status", IF args.status # None THEN args.status[1] ELSE "")
    \o When(args.status = Some("closed"), "closed_at", Some(closed_at))
    \o When(args.clear_notes, "notes", None)
    \o NotesAssignment(args, row)

\* The list `updates` with the values bound to it, in the order the code
\* builds it, the right-hand sides evaluated on the stored row.  closed_at
\* is the reading of the clock at line 591.
Updates(args, row, closed_at) ==
       When(args.title # None, "title", IF args.title # None THEN args.title[1] ELSE "")
    \o When(args.category # None, "category", args.category)
    \o When(args.clear_category, "category", None)
    \o When(args.severity # None, "severity", args.severity)
    \o When(args.owner # None, "owner", args.owner)
    \o When(args.clear_owner, "owner", None)
    \o When(args.due # None, "due_date", args.due)
    \o When(args.clear_due, "due_date", None)
    \o When(args.source # None, "source", args.source)
    \o When(args.clear_source, "source", None)
    \o When(args.tags # None, "tags", args.tags)
    \o When(args.clear_tags, "tags", None)
    \o When(args.status # None, "status", IF args.status # None THEN args.status[1] ELSE "")
    \o When(args.status = Some("closed"), "closed_at", Some(closed_at))
    \o When(args.status # None /\ args.status # Some("closed"), "closed_at", None)
    \o When(args.clear_notes, "notes", None)
    \o NotesAssignment(args, row)

RECURSIVE SetColumns(_, _)
\* SQLite's UPDATE ... SET: when a column is assigned more than once, the
\* rightmost assignment is the one that takes effect.
SetColumns(row, updates) ==
    IF Len(updates) = 0
    THEN row
    ELSE SetColumns([row EXCEPT ![updates[1][1]] = updates[1][2]], Tail(updates))

\* update_signal without the updated_at assignment.
UpdatedRowStale(row, args, closed_at, updated_at) ==
    SetColumns(row, Updates(args, row, closed_at))

\* update_signal assigning its last clock reading to created_at.
UpdatedRowTouchesCreated(row, args, closed_at, updated_at) ==
    SetColumns(row, Updates(args, row, closed_at) \o << << "created_at", updated_at >> >>)

\* The row the UPDATE statement of update_signal stores.
UpdatedRow(row, args, closed_at, updated_at) ==
    SetColumns(row, Updates(args, row, closed_at) \o << << "updated_at", Some(updated_at) >> >>)

\* The clock as update_signal reads it: at line 591 when the status is set
\* to closed, and at line 613.
UpdateReadings(args) ==
    IF args.status = Some("closed") THEN ClockReadings ELSE { << now, now >> }

UpdateSignal(signal_id, args) ==
    /\ ncmds < MaxCmds
    /\ LET rows == init_db(signals)
       IN  IF ValidationMessage(args) # ""
           THEN /\ signals' = rows
                /\ out' = ValidationMessage(args)
                /\ now' = now
           ELSE IF ~Exists(rows, signal_id)
           THEN /\ signals' = rows
                /\ out' = "Signal not found."
                /\ now' = now
           ELSE IF Len(Updates(args, RowOf(rows, signal_id), now)) = 0
           THEN /\ signals' = rows
                /\ out' = "No updates provided."
                /\ now' = now
           ELSE \E r \in UpdateReadings(args) :
                    /\ signals' = [i \in 1..Len(rows) |->
                                       IF rows[i].id = signal_id
                                       THEN UpdatedRow(rows[i], args, r[1], r[2])
                                       ELSE rows[i]]
                    /\ out' = "Updated signal."
                    /\ now' = r[2]
    /\ cmd' = [name |-> "update", id |-> signal_id, args |-> args]
    /\ report' = NoReport
    /\ UNCHANGED procs
    /\ ncmds' = ncmds + 1
    /\ UNCHANGED lastRowid

\* ---------------------------------------------------------------- list
ListArgs ==
    { [status |-> s, category |-> None, owner |-> o, severity |-> None] :
        s \in { Some("open"), Some("closed"), Some("") },
        o \in { None, Some("ana") } }

\* build_filters: the conjunction of the filters that are given (the search
\* option is never given here).
MatchesFilters(row, args) ==
    /\ Truthy(args.status, "") => row.status = args.status[1]
    /\ Truthy(args.category, "") => row.category = args.category
    /\ Truthy(args.owner, "") => row.owner = args.owner
    /\ Truthy(args.severity, "") => row.severity = args.severity

ListSignals(args) ==
    /\ ncmds < MaxCmds
    /\ signals' = init_db(signals)
    /\ out' = IF \E i \in 1..Len(signals) : MatchesFilters(init_db(signals)[i], args)
              THEN "Listed signals."
              ELSE "No signals found."
    /\ cmd' = [name |-> "list", id |-> 0, args |-> args]
    /\ report' = NoReport
    /\ UNCHANGED procs
    /\ ncmds' = ncmds + 1
    /\ UNCHANGED << lastRowid, now >>

\* ================================================================ reports
\* parse_date of a due_date column: the date of a YYYY-MM-DD text, None for
\* NULL, the empty string and text in no accepted format.
parse_date(value) ==
    IF value # None /\ value[1].fmt = "ymd" THEN Some(value[1].day) ELSE None

\* parse_date of a timestamp written by utc_now(): its calendar day.
date_of_timestamp(ts) == ts \div TicksPerDay

\* datetime.utcnow().date()
today(clock) == clock \div TicksPerDay

\* date.weekday(), Monday = 0; day 2 (2026-02-02) is a Monday.
weekday(day) == (day + 5) % 7

\* due - timedelta(days=due.weekday())
week_start(day) == day - weekday(day)

\* (today - created_date).days; created_at always parses.
age_days_of(row, clock) == today(clock) - date_of_timestamp(row.created_at)

\* row["severity"] or DEFAULT_SEVERITY
SeverityOrDefault(row) ==
    IF Truthy(row.severity, "") THEN row.severity[1] ELSE DEFAULT_SEVERITY

\* row["owner"] or "Unassigned"
OwnerOrUnassigned(row) ==
    IF Truthy(row.owner, "") THEN row.owner[1] ELSE "Unassigned"

\* The selection without its WHERE clause.
OpenRowsAll(rows) == rows

\* The rows of a SELECT ... WHERE status = 'open', in table order.
OpenRows(rows) == SelectSeq(rows, LAMBDA r : r.status = "open")

\* ORDER BY created_at DESC; rows of equal created_at come in rowid order,
\* as the SQLite sorter delivers them.
OrderByCreatedDesc(rows) ==
    LET before(i, j) == \/ rows[i].created_at > rows[j].created_at
                        \/ rows[i].created_at = rows[j].created_at /\ i < j
        rank(i) == Cardinality({ j \in 1..Len(rows) : before(j, i) }) + 1
    IN  [k \in 1..Len(rows) |-> rows[CHOOSE i \in 1..Len(rows) : rank(i) = k]]

\* seq[:limit] for a limit that is not negative.
Take(seq, limit) == SubSeq(seq, 1, IF limit < Len(seq) THEN limit ELSE Len(seq))

\* Windows (--days) and display limits (--limit) given to the reports.
ReportWindows == {3, 14}
ReportLimits == {1, 10}

ReportArgs == { [days |-> d, limit |-> l] : d \in ReportWindows, l \in ReportLimits }

\* ---------------------------------------------------------------- triage
severity_weights(severity) ==
    CASE severity = "low" -> 1
      [] severity = "medium" -> 2
      [] severity = "high" -> 3
      [] severity = "critical" -> 4
      [] OTHER -> 2

\* Lines 829-838 with the overdue test left out.
DueStepNoOverdue(due, day, days) ==
    IF due # None
    THEN IF due[1] - day <= days
         THEN [points |-> 8, tags |-> << "due soon" >>]
         ELSE [points |-> 0, tags |-> << >>]
    ELSE [points |-> 2, tags |-> << "no due date" >>]

\* Lines 829-838 scoring a due date inside the window as a missing one.
DueStepSoonAsMissing(due, day, days) ==
    IF due # None
    THEN IF due[1] < day
         THEN [points |-> 15, tags |-> << "overdue" >>]
         ELSE IF due[1] - day <= days
         THEN [points |-> 2, tags |-> << "due soon" >>]
         ELSE [points |-> 0, tags |-> << >>]
    ELSE [points |-> 2, tags |-> << "no due date" >>]

\* Lines 829-838: the points and the tag the due date adds.
DueStep(due, day, days) ==
    IF due # None
    THEN IF due[1] < day
         THEN [points |-> 15, tags |-> << "overdue" >>]
         ELSE IF due[1] - day <= days
         THEN [points |-> 8, tags |-> << "due soon" >>]
         ELSE [points |-> 0, tags |-> << >>]
    ELSE [points |-> 2, tags |-> << "no due date" >>]

\* Lines 840-842.
OwnerStep(row) ==
    IF ~Truthy(row.owner, "")
    THEN [points |-> 3, tags |-> << "unassigned" >>]
    ELSE [points |-> 0, tags |-> << >>]

\* Lines 844-846 without the cap of 12.
AgingStepUncapped(age_days) ==
    IF age_days >= 14
    THEN [points |-> age_days \div 7, tags |-> << "aging" >>]
    ELSE [points |-> 0, tags |-> << >>]

\* Lines 844-846.
AgingStep(age_days) ==
    IF age_days >= 14
    THEN [points |-> IF age_days \div 7 < 12 THEN age_days \div 7 ELSE 12,
          tags |-> << "aging" >>]
    ELSE [points |-> 0, tags |-> << >>]

\* Line 857 appending "recent" to the tags there are.
ReasonAlwaysRecent(reasons) == reasons \o << "recent" >>

\* Line 857: the tags joined in order, or "recent" when there is none.
Reason(reasons) == IF Len(reasons) > 0 THEN reasons ELSE << "recent" >>

\* The dictionary triage appends to `scored` for one row.
TriageItem(row, clock, days) ==
    LET due == DueStep(parse_date(row.due_date), today(clock), days)
        owner == OwnerStep(row)
        aging == AgingStep(age_days_of(row, clock))
    IN  [id |-> row.id,
         severity |-> SeverityOrDefault(row),
         owner |-> OwnerOrUnassigned(row),
         age_days |-> age_days_of(row, clock),
         score |-> severity_weights(SeverityOrDefault(row)) * 10
                     + due.points + owner.points + aging.points,
         reason |-> Reason(due.tags \o owner.tags \o aging.tags)]

\* Line 861 sorting by the score alone.
SortScoredByScore(scored) ==
    LET before(i, j) == \/ scored[i].score > scored[j].score
                        \/ scored[i].score = scored[j].score /\ i < j
        rank(i) == Cardinality({ j \in 1..Len(scored) : before(j, i) }) + 1
    IN  [k \in 1..Len(scored) |-> scored[CHOOSE i \in 1..Len(scored) : rank(i) = k]]

\* Line 861: the stable sort on (score, age_days), reversed.
SortScored(scored) ==
    LET greater(a, b) == \/ a.score > b.score
                         \/ a.score = b.score /\ a.age_days > b.age_days
        same(a, b) == a.score = b.score /\ a.age_days = b.age_days
        before(i, j) == \/ greater(scored[i], scored[j])
                        \/ same(scored[i], scored[j]) /\ i < j
        rank(i) == Cardinality({ j \in 1..Len(scored) : before(j, i) }) + 1
    IN  [k \in 1..Len(scored) |-> scored[CHOOSE i \in 1..Len(scored) : rank(i) = k]]

\* Lines 863-866: the number of items whose reason holds the tag.
TagCount(scored, tag) ==
    Cardinality({ i \in 1..Len(scored) :
                    \E k \in 1..Len(scored[i].reason) : scored[i].reason[k] = tag })

\* triage printing its table of an empty selection.
TriageReportNoGuard(rows, clock, args) ==
    LET open == OrderByCreatedDesc(OpenRows(rows))
        scored == SortScored([i \in 1..Len(open) |-> TriageItem(open[i], clock, args.days)])
    IN  [kind |-> "triage", scored |-> scored, shown |-> Take(scored, args.limit),
         open |-> Len(scored),
         overdue |-> TagCount(scored, "overdue"),
         due_soon |-> TagCount(scored, "due soon"),
         unassigned |-> TagCount(scored, "unassigned"),
         no_due |-> TagCount(scored, "no due date"),
         message |-> "Triage Snapshot"]

\* What triage prints.
TriageReport(rows, clock, args) ==
    LET open == OrderByCreatedDesc(OpenRows(rows))
        scored == SortScored([i \in 1..Len(open) |-> TriageItem(open[i], clock, args.days)])
    IN  IF Len(open) = 0
        THEN [kind |-> "triage", scored |-> << >>, shown |-> << >>, open |-> 0,
              overdue |-> 0, due_soon |-> 0, unassigned |-> 0, no_due |-> 0,
              message |-> "No open signals found."]
        ELSE [kind |-> "triage", scored |-> scored, shown |-> Take(scored, args.limit),
              open |-> Len(scored),
              overdue |-> TagCount(scored, "overdue"),
              due_soon |-> TagCount(scored, "due soon"),
              unassigned |-> TagCount(scored, "unassigned"),
              no_due |-> TagCount(scored, "no due date"),
              message |-> "Triage Snapshot"]

\* One invocation of a report command: init_db, then the handler prints.
RunReport(name, args, result) ==
    /\ ncmds < MaxCmds
    /\ signals' = init_db(signals)
    /\ cmd' = [name |-> name, id |-> 0, args |-> args]
    /\ report' = result
    /\ UNCHANGED procs
    /\ out' = result.message
    /\ ncmds' = ncmds + 1
    /\ UNCHANGED << lastRowid, now >>

Triage(args) == RunReport("triage", args, TriageReport(init_db(signals), now, args))

\* -------------------------------------------------------------- workload
WorkloadArgs == { [days |-> d] : d \in ReportWindows }

\* The keys of a dictionary filled by setdefault in row order: the owners in
\* order of first appearance.
RECURSIVE BucketOwners(_)
BucketOwners(rows) ==
    IF Len(rows) = 0 THEN << >>
    ELSE LET head == BucketOwners(SubSeq(rows, 1, Len(rows) - 1))
             owner == OwnerOrUnassigned(rows[Len(rows)])
         IN  IF \E k \in 1..Len(head) : head[k] = owner THEN head ELSE Append(head, owner)

\* Lines 959-966 counting a signal due today as overdue.
DueBucketTodayOverdue(due, day, days) ==
    IF due = None THEN "no_due"
    ELSE IF due[1] <= day THEN "overdue"
    ELSE IF due[1] - day <= days THEN "due_soon"
    ELSE "due_later"

\* Lines 959-966.
DueBucket(due, day, days) ==
    IF due = None THEN "no_due"
    ELSE IF due[1] < day THEN "overdue"
    ELSE IF due[1] - day <= days THEN "due_soon"
    ELSE "due_later"

RECURSIVE SumAges(_, _)
SumAges(rows, clock) ==
    IF Len(rows) = 0 THEN 0
    ELSE age_days_of(rows[1], clock) + SumAges(Tail(rows), clock)

\* round(total / count, 1) in tenths, for ages that are not negative:
\* Python rounds an exact half to the even digit, and below 20 rows every
\* half is a multiple of 1/4, which a float holds exactly.
RoundTenths(total, count) ==
    LET q == (10 * total) \div count
        r == (10 * total) % count
    IN  IF 2 * r < count THEN q
        ELSE IF 2 * r > count THEN q + 1
        ELSE IF q % 2 = 0 THEN q ELSE q + 1

\* Lines 968-982: the output row of one owner's bucket.
WorkloadRow(owner, rows, clock, days) ==
    LET mine == SelectSeq(rows, LAMBDA r : OwnerOrUnassigned(r) = owner)
        due_count(b) ==
            Len(SelectSeq(mine, LAMBDA r : DueBucket(parse_date(r.due_date), today(clock), days) = b))
    IN  [owner |-> owner,
         open |-> Len(mine),
         overdue |-> due_count("overdue"),
         due_soon |-> due_count("due_soon"),
         due_later |-> due_count("due_later"),
         no_due |-> due_count("no_due"),
         avg_age |-> RoundTenths(SumAges(mine, clock), Len(mine)),
         high_critical |->
             Len(SelectSeq(mine, LAMBDA r : SeverityOrDefault(r) \in {"high", "critical"}))]

\* Line 984: the stable sort on (overdue, open, high_critical), reversed.
SortWorkload(rows_out) ==
    LET greater(a, b) ==
            \/ a.overdue > b.overdue
            \/ a.overdue = b.overdue /\ a.open > b.open
            \/ a.overdue = b.overdue /\ a.open = b.open /\ a.high_critical > b.high_critical
        same(a, b) ==
            a.overdue = b.overdue /\ a.open = b.open /\ a.high_critical = b.high_critical
        before(i, j) == \/ greater(rows_out[i], rows_out[j])
                        \/ same(rows_out[i], rows_out[j]) /\ i < j
        rank(i) == Cardinality({ j \in 1..Len(rows_out) : before(j, i) }) + 1
    IN  [k \in 1..Len(rows_out) |-> rows_out[CHOOSE i \in 1..Len(rows_out) : rank(i) = k]]

\* What workload prints.
WorkloadReport(rows, clock, args) ==
    LET open == OrderByCreatedDesc(OpenRows(rows))
        owners == BucketOwners(open)
    IN  IF Len(open) = 0
        THEN [kind |-> "workload", rows_out |-> << >>, open |-> 0,
              message |-> "No open signals found."]
        ELSE [kind |-> "workload",
              rows_out |-> SortWorkload([k \in 1..Len(owners) |->
                                            WorkloadRow(owners[k], open, clock, args.days)]),
              open |-> Len(open),
              message |-> "Workload Snapshot"]

Workload(args) == RunReport("workload", args, WorkloadReport(init_db(signals), now, args))

\* -------------------------------------------------------------- calendar
\* sorted(..., key=...): the rows of `keyed` by key ascending, equal keys in
\* their given order.
SortAscending(keyed) ==
    LET before(i, j) == \/ keyed[i].key < keyed[j].key
                        \/ keyed[i].key = keyed[j].key /\ i < j
        rank(i) == Cardinality({ j \in 1..Len(keyed) : before(j, i) }) + 1
    IN  [k \in 1..Len(keyed) |-> keyed[CHOOSE i \in 1..Len(keyed) : rank(i) = k].row]

\* sorted(upcoming_by_week.keys())
SortedDays(days) ==
    LET rank(d) == Cardinality({ e \in days : e < d }) + 1
    IN  [k \in 1..Cardinality(days) |-> CHOOSE d \in days : rank(d) = k]

\* The rows of a bucket left in the order they were appended.
ByDueUnsorted(rows) == rows

ByDue(rows) == SortAscending([i \in 1..Len(rows) |->
                                [key |-> parse_date(rows[i].due_date)[1], row |-> rows[i]]])

ById(rows) == SortAscending([i \in 1..Len(rows) |-> [key |-> rows[i].id, row |-> rows[i]]])

\* Lines 1088-1103 keying a week by the Sunday before its Monday.
calendar_slot_sunday(row, day, horizon) ==
    LET due == parse_date(row.due_date)
    IN  IF due = None THEN [label |-> "No Due Date", week |-> 0]
        ELSE IF due[1] < day THEN [label |-> "Overdue Signals", week |-> 0]
        ELSE IF due[1] = day THEN [label |-> "Due Today", week |-> 0]
        ELSE IF due[1] <= horizon THEN [label |-> "Week of", week |-> week_start(due[1]) - 1]
        ELSE [label |-> "Beyond", week |-> 0]

\* Lines 1088-1103 with a row due today appended to its week.
calendar_slot_today_in_week(row, day, horizon) ==
    LET due == parse_date(row.due_date)
    IN  IF due = None THEN [label |-> "No Due Date", week |-> 0]
        ELSE IF due[1] < day THEN [label |-> "Overdue Signals", week |-> 0]
        ELSE IF due[1] <= horizon THEN [label |-> "Week of", week |-> week_start(due[1])]
        ELSE [label |-> "Beyond", week |-> 0]

\* Lines 1088-1103: the list a row is appended to.
calendar_slot(row, day, horizon) ==
    LET due == parse_date(row.due_date)
    IN  IF due = None THEN [label |-> "No Due Date", week |-> 0]
        ELSE IF due[1] < day THEN [label |-> "Overdue Signals", week |-> 0]
        ELSE IF due[1] = day THEN [label |-> "Due Today", week |-> 0]
        ELSE IF due[1] <= horizon THEN [label |-> "Week of", week |-> week_start(due[1])]
        ELSE [label |-> "Beyond", week |-> 0]

\* One section of the calendar: its rows sorted, and the rows shown.
CalendarSection(slot, rows, day, horizon, limit) ==
    LET mine == SelectSeq(rows, LAMBDA r : calendar_slot(r, day, horizon) = slot)
        sorted == IF slot.label \in {"Due Today", "No Due Date"} THEN ById(mine) ELSE ByDue(mine)
        ids == [i \in 1..Len(sorted) |-> sorted[i].id]
    IN  [label |-> slot.label, week |-> slot.week, rows |-> ids, shown |-> Take(ids, limit)]

\* Lines 1176-1189: the sections that are not empty, in print order.
CalendarSections(rows, day, horizon, limit) ==
    LET weeks == SortedDays({ calendar_slot(rows[i], day, horizon).week :
                                i \in { j \in 1..Len(rows) :
                                          calendar_slot(rows[j], day, horizon).label = "Week of" } })
        slots == << [label |-> "Overdue Signals", week |-> 0],
                    [label |-> "Due Today", week |-> 0] >>
                 \o [k \in 1..Len(weeks) |-> [label |-> "Week of", week |-> weeks[k]]]
                 \o << [label |-> "Beyond", week |-> 0],
                       [label |-> "No Due Date", week |-> 0] >>
        all == [k \in 1..Len(slots) |-> CalendarSection(slots[k], rows, day, horizon, limit)]
    IN  SelectSeq(all, LAMBDA s : Len(s.rows) > 0)

\* What calendar prints.
CalendarReport(rows, clock, args) ==
    LET open == OrderByCreatedDesc(OpenRows(rows))
        horizon == today(clock) + args.days
    IN  IF Len(open) = 0
        THEN [kind |-> "calendar", sections |-> << >>, open |-> 0, horizon |-> horizon,
              message |-> "No open signals found."]
        ELSE [kind |-> "calendar",
              sections |-> CalendarSections(open, today(clock), horizon, args.limit),
              open |-> Len(open), horizon |-> horizon,
              message |-> "Signal Calendar Snapshot"]

Calendar(args) == RunReport("calendar", args, CalendarReport(init_db(signals), now, args))

\* --------------------------------------------------------------- summary
Ids(rows) == [i \in 1..Len(rows) |-> rows[i].id]

\* One section of summary: the lines of GROUP BY `column`, each group with
\* its label (`row[0] or 'Unspecified'`) and its count.
SummarySection(rows, column) ==
    { [key |-> rows[i][column],
       label |-> IF column = "status" THEN rows[i].status
                 ELSE IF Truthy(rows[i][column], "") THEN rows[i][column][1]
                 ELSE "Unspecified",
       count |-> Cardinality({ j \in 1..Len(rows) : rows[j][column] = rows[i][column] })] :
        i \in 1..Len(rows) }

\* What summary prints: four sections, "(none)" under one without groups.
SummaryReport(rows) ==
    [kind |-> "summary",
     sections |-> [column \in {"status", "category", "severity", "owner"} |->
                      SummarySection(rows, column)],
     message |-> IF Len(rows) = 0 THEN "(none)" ELSE "Summary rollups"]

Summary == RunReport("summary", NoOptions, SummaryReport(init_db(signals)))

\* ---------------------------------------------------------------- export
\* csv.writer on a nullable text column: None is written as the empty field.
CsvText(value) == IF value = None THEN "" ELSE value[1]

\* The same on the notes column.
CsvNotes(value) == IF value = None THEN << >> ELSE value[1]

\* The same on the due_date column.
CsvDue(value) == IF value = None THEN DueEmpty ELSE value[1]

\* The same on a nullable timestamp column; no timestamp is the empty text.
CsvStamp(value) == IF value = None THEN << >> ELSE << value[1] >>

\* str() of the integer id.
CsvInt(value) == [digits |-> value]

\* Line 691/699: the CSV record of one row.
CsvRecord(row) ==
    [id |-> CsvInt(row.id), title |-> row.title, category |-> CsvText(row.category),
     severity |-> CsvText(row.severity), owner |-> CsvText(row.owner),
     due_date |-> CsvDue(row.due_date), status |-> row.status,
     notes |-> CsvNotes(row.notes), source |-> CsvText(row.source),
     tags |-> CsvText(row.tags), created_at |-> CsvStamp(Some(row.created_at)),
     closed_at |-> CsvStamp(row.closed_at), updated_at |-> CsvStamp(row.updated_at)]

\* What export writes and prints.
ExportReport(rows, args) ==
    LET selected == OrderByCreatedDesc(SelectSeq(rows, LAMBDA r : MatchesFilters(r, args)))
    IN  IF Len(selected) = 0
        THEN [kind |-> "export", records |-> << >>, message |-> "No signals found to export."]
        ELSE [kind |-> "export",
              records |-> [i \in 1..Len(selected) |-> CsvRecord(selected[i])],
              message |-> "Exported signals."]

ExportCsv(args) == RunReport("export", args, ExportReport(init_db(signals), args))

\* digest selecting its recent signals among the open ones only.
DigestReportRecentOpen(rows, clock, args) ==
    LET all == OrderByCreatedDesc(rows)
        open == OpenRows(all)
        due_of(r) == parse_date(r.due_date)
        overdue == SelectSeq(open, LAMBDA r : due_of(r) # None /\ due_of(r)[1] < today(clock))
        due_soon == SelectSeq(open, LAMBDA r : /\ due_of(r) # None
                                               /\ due_of(r)[1] >= today(clock)
                                               /\ due_of(r)[1] - today(clock) <= args.days)
        recent == SelectSeq(open, LAMBDA r :
                              date_of_timestamp(r.created_at) >= today(clock) - args.days)
    IN  IF Len(all) = 0
        THEN [kind |-> "digest", total |-> 0, open |-> 0, closed |-> 0,
              overdue |-> << >>, due_soon |-> << >>, recent |-> << >>,
              message |-> "No signals found."]
        ELSE [kind |-> "digest", total |-> Len(all), open |-> Len(open),
              closed |-> Len(SelectSeq(all, LAMBDA r : r.status = "closed")),
              overdue |-> Ids(overdue), due_soon |-> Ids(due_soon), recent |-> Ids(recent),
              message |-> "Signal Digest"]

\* ---------------------------------------------------------------- digest
\* What digest prints.
DigestReport(rows, clock, args) ==
    LET all == OrderByCreatedDesc(rows)
        open == OpenRows(all)
        due_of(r) == parse_date(r.due_date)
        overdue == SelectSeq(open, LAMBDA r : due_of(r) # None /\ due_of(r)[1] < today(clock))
        due_soon == SelectSeq(open, LAMBDA r : /\ due_of(r) # None
                                               /\ due_of(r)[1] >= today(clock)
                                               /\ due_of(r)[1] - today(clock) <= args.days)
        recent == SelectSeq(all, LAMBDA r :
                              date_of_timestamp(r.created_at) >= today(clock) - args.days)
    IN  IF Len(all) = 0
        THEN [kind |-> "digest", total |-> 0, open |-> 0, closed |-> 0,
              overdue |-> << >>, due_soon |-> << >>, recent |-> << >>,
              message |-> "No signals found."]
        ELSE [kind |-> "digest", total |-> Len(all), open |-> Len(open),
              closed |-> Len(SelectSeq(all, LAMBDA r : r.status = "closed")),
              overdue |-> Ids(overdue), due_soon |-> Ids(due_soon), recent |-> Ids(recent),
              message |-> "Signal Digest"]

Digest(args) == RunReport("digest", args, DigestReport(init_db(signals), now, args))

\* ----------------------------------------------------------------- audit
AuditArgs == { [limit |-> l, stale_days |-> d] : l \in ReportLimits, d \in {14, 21} }

\* What audit prints.
AuditReport(rows, clock, args) ==
    LET open == OrderByCreatedDesc(OpenRows(rows))
        missing(column) == Ids(SelectSeq(open, LAMBDA r : ~Truthy(r[column], "")))
        due_of(r) == parse_date(r.due_date)
    IN  IF Len(open) = 0
        THEN [kind |-> "audit", open |-> 0, message |-> "No open signals found."]
        ELSE [kind |-> "audit", open |-> Len(open),
              missing_owner |-> missing("owner"),
              missing_due |-> Ids(SelectSeq(open, LAMBDA r : ~Truthy(r.due_date, DueEmpty))),
              missing_category |-> missing("category"),
              missing_severity |-> missing("severity"),
              missing_tags |-> missing("tags"),
              missing_source |-> missing("source"),
              aging |-> Ids(SelectSeq(open, LAMBDA r : age_days_of(r, clock) >= args.stale_days)),
              overdue |-> Ids(SelectSeq(open, LAMBDA r :
                                          due_of(r) # None /\ due_of(r)[1] < today(clock))),
              message |-> "Audit Snapshot"]

Audit(args) == RunReport("audit", args, AuditReport(init_db(signals), now, args))

\* --------------------------------------------------------------- metrics
MetricsArgs == { [due_days |-> d, limit |-> 8, stale_days |-> 14] : d \in ReportWindows }

\* (today - dt).days of two datetimes.
whole_days(clock, ts) == (clock - ts) \div TicksPerDay

\* parse_datetime(row["updated_at"]) or the created datetime.
updated_or_created(row) ==
    IF row.updated_at # None THEN row.updated_at[1] ELSE row.created_at

\* What metrics prints.
MetricsReport(rows, clock, args) ==
    LET all == OrderByCreatedDesc(rows)
        open == OpenRows(all)
        closed == SelectSeq(all, LAMBDA r : r.status = "closed")
        due_of(r) == parse_date(r.due_date)
        count(S) == Len(S)
        aged == [i \in 1..Len(open) |->
                    [key |-> 0 - whole_days(clock, open[i].created_at), row |-> open[i]]]
    IN  IF Len(all) = 0
        THEN [kind |-> "metrics", total |-> 0, message |-> "No signals found."]
        ELSE [kind |-> "metrics", total |-> Len(all), open |-> Len(open),
              closed |-> Len(closed),
              open_overdue |-> count(SelectSeq(open, LAMBDA r :
                                  due_of(r) # None /\ due_of(r)[1] < today(clock))),
              open_due_soon |-> count(SelectSeq(open, LAMBDA r :
                                  /\ due_of(r) # None
                                  /\ due_of(r)[1] >= today(clock)
                                  /\ due_of(r)[1] - today(clock) <= args.due_days)),
              open_unassigned |-> count(SelectSeq(open, LAMBDA r : ~Truthy(r.owner, ""))),
              open_stale |-> count(SelectSeq(open, LAMBDA r :
                                  whole_days(clock, updated_or_created(r)) >= args.stale_days)),
              open_by_severity |->
                  [s \in Severities \cup {"unspecified"} |->
                      count(SelectSeq(open, LAMBDA r :
                              (IF Truthy(r.severity, "") THEN r.severity[1] ELSE "unspecified") = s))],
              open_ages |-> [i \in 1..Len(open) |-> whole_days(clock, open[i].created_at)],
              closed_cycle |-> [i \in 1..Len(closed) |->
                                  (closed[i].closed_at[1] - closed[i].created_at) \div TicksPerDay],
              oldest_open |-> Take(Ids(SortAscending(aged)), args.limit),
              message |-> "Signal Metrics"]

Metrics(args) == RunReport("metrics", args, MetricsReport(init_db(signals), now, args))

\* ----------------------------------------------------------------- stale
\* What stale prints.
StaleReport(rows, clock, args) ==
    LET open == OrderByCreatedDesc(OpenRows(rows))
        old == SelectSeq(open, LAMBDA r :
                           whole_days(clock, updated_or_created(r)) >= args.days)
        stale_rows == SortAscending([i \in 1..Len(old) |->
                         [key |-> 0 - whole_days(clock, updated_or_created(old[i])),
                          row |-> old[i]]])
    IN  IF Len(open) = 0
        THEN [kind |-> "stale", open |-> 0, stale_rows |-> << >>, shown |-> << >>,
              message |-> "No open signals found."]
        ELSE [kind |-> "stale", open |-> Len(open), stale_rows |-> Ids(stale_rows),
              shown |-> Take(Ids(stale_rows), args.limit),
              message |-> IF Len(stale_rows) = 0 THEN "No stale signals found."
                          ELSE "Stale Signal Snapshot"]

Stale(args) == RunReport("stale", args, StaleReport(init_db(signals), now, args))

\* ----------------------------------------------------------------- trend
\* trend and activity are called by src/tests/test_trend.py and
\* src/tests/test_activity.py but are not defined in src/app.py; they are
\* modelled from the specification's description and the tests' cases.
TrendArgs == { [weeks |-> n, as_of |-> d] : n \in {1, 3}, d \in {8, StartDay} }

\* A weekly row counting as open every signal open at the end of the week,
\* whenever it was created.
TrendRowAllOpen(rows, start) ==
    LET in_week(day) == start <= day /\ day <= start + 6
        created == { i \in 1..Len(rows) : in_week(date_of_timestamp(rows[i].created_at)) }
        closed == { i \in 1..Len(rows) :
                      /\ rows[i].closed_at # None
                      /\ in_week(date_of_timestamp(rows[i].closed_at[1])) }
        open == { i \in 1..Len(rows) :
                    /\ date_of_timestamp(rows[i].created_at) <= start + 6
                    /\ \/ rows[i].closed_at = None
                       \/ date_of_timestamp(rows[i].closed_at[1]) > start + 6 }
    IN  [week |-> start, created |-> Cardinality(created),
         closed |-> Cardinality(closed), open |-> Cardinality(open)]

\* The row of the week that starts on the Monday `start`: the signals
\* created in it, closed in it, and created in it and not closed by its end.
TrendRow(rows, start) ==
    LET in_week(day) == start <= day /\ day <= start + 6
        created == { i \in 1..Len(rows) : in_week(date_of_timestamp(rows[i].created_at)) }
        closed == { i \in 1..Len(rows) :
                      /\ rows[i].closed_at # None
                      /\ in_week(date_of_timestamp(rows[i].closed_at[1])) }
        open == { i \in created :
                    \/ rows[i].closed_at = None
                    \/ date_of_timestamp(rows[i].closed_at[1]) > start + 6 }
    IN  [week |-> start, created |-> Cardinality(created),
         closed |-> Cardinality(closed), open |-> Cardinality(open)]

\* What trend prints: a row for each of the `weeks` weeks that end with the
\* week of the as-of date, the latest first.
TrendReport(rows, args) ==
    IF Len(rows) = 0
    THEN [kind |-> "trend", rows |-> << >>, message |-> "No signals found."]
    ELSE [kind |-> "trend",
          rows |-> [k \in 1..args.weeks |->
                      TrendRow(rows, week_start(args.as_of) - 7 * (k - 1))],
          message |-> "Signal Trend"]

Trend(args) == RunReport("trend", args, TrendReport(init_db(signals), args))

\* -------------------------------------------------------------- activity
ActivityArgs == { [days |-> d, limit |-> 5] : d \in {5, 7} }

\* The counts of activity leaving out the day D days before today.
ActivityCountsExclusive(rows, clock, days) ==
    LET within(ts) == ts # None /\ date_of_timestamp(ts[1]) > today(clock) - days
        open == OpenRows(rows)
        due_of(r) == parse_date(r.due_date)
    IN  [created |-> Len(SelectSeq(rows, LAMBDA r : within(Some(r.created_at)))),
         updated |-> Len(SelectSeq(rows, LAMBDA r : within(r.updated_at))),
         closed |-> Len(SelectSeq(rows, LAMBDA r : within(r.closed_at))),
         open_overdue |-> Len(SelectSeq(open, LAMBDA r :
                                due_of(r) # None /\ due_of(r)[1] < today(clock))),
         open_due_soon |-> Len(SelectSeq(open, LAMBDA r :
                                /\ due_of(r) # None
                                /\ due_of(r)[1] >= today(clock)
                                /\ due_of(r)[1] - today(clock) <= days))]

\* The counts of activity: a timestamp is within the last D days when its
\* date is no earlier than today - D, as in digest.
ActivityCounts(rows, clock, days) ==
    LET within(ts) == ts # None /\ date_of_timestamp(ts[1]) >= today(clock) - days
        open == OpenRows(rows)
        due_of(r) == parse_date(r.due_date)
    IN  [created |-> Len(SelectSeq(rows, LAMBDA r : within(Some(r.created_at)))),
         updated |-> Len(SelectSeq(rows, LAMBDA r : within(r.updated_at))),
         closed |-> Len(SelectSeq(rows, LAMBDA r : within(r.closed_at))),
         open_overdue |-> Len(SelectSeq(open, LAMBDA r :
                                due_of(r) # None /\ due_of(r)[1] < today(clock))),
         open_due_soon |-> Len(SelectSeq(open, LAMBDA r :
                                /\ due_of(r) # None
                                /\ due_of(r)[1] >= today(clock)
                                /\ due_of(r)[1] - today(clock) <= days))]

\* What activity prints.
ActivityReport(rows, clock, args) ==
    IF Len(rows) = 0
    THEN [kind |-> "activity", message |-> "No signals found."]
    ELSE [kind |-> "activity", counts |-> ActivityCounts(rows, clock, args.days),
          message |-> "Signal Activity"]

Activity(args) == RunReport("activity", args, ActivityReport(init_db(signals), now, args))

Next ==
    \/ Tick
    \/ InitCmd
    \/ \E args \in AddArgs : AddSignal(args)
    \/ SeedSignals
    \/ \E id \in TargetIds, note \in NoteArgs : CloseSignal(id, note)
    \/ \E id \in TargetIds, note \in NoteArgs : ReopenSignal(id, note)
    \/ \E id \in TargetIds, args \in UpdateArgs : UpdateSignal(id, args)
    \/ \E args \in ListArgs : ListSignals(args)
    \/ Summary
    \/ \E args \in ListArgs : ExportCsv(args)
    \/ \E args \in ReportArgs : Digest(args)
    \/ \E args \in ReportArgs : Triage(args)
    \/ \E args \in WorkloadArgs : Workload(args)
    \/ \E args \in ReportArgs : Calendar(args)
    \/ \E args \in AuditArgs : Audit(args)
    \/ \E args \in MetricsArgs : Metrics(args)
    \/ \E args \in ReportArgs : Stale(args)
    \/ \E args \in TrendArgs : Trend(args)
    \/ \E args \in ActivityArgs : Activity(args)

Spec == Init /\ [][Next]_vars

\* -------------------------------------------------- tables for the reports
\* A stored row as the reports read it, its id still to be assigned.
ReportRow(status, severity, owner, due, created_days_ago, closed_days_ago) ==
    [id |-> 0, title |-> "signal", category |-> None, severity |-> severity,
     owner |-> owner, due_date |-> due, status |-> status, notes |-> None,
     source |-> None, tags |-> None,
     created_at |-> utc_days_ago(StartClock, created_days_ago),
     closed_at |-> IF status = "closed"
                   THEN Some(utc_days_ago(StartClock, closed_days_ago))
                   ELSE None,
     updated_at |-> Some(utc_days_ago(StartClock, IF status = "closed"
                                                  THEN closed_days_ago
                                                  ELSE created_days_ago))]

\* AUTOINCREMENT ids in insertion order.
WithIds(rows) == [i \in 1..Len(rows) |-> [rows[i] EXCEPT !.id = i]]

\* Due dates of the drawn rows: around the first day, the window ends, and
\* the Wednesdays 2026-02-11, 2026-02-18 and 2026-02-25.
ReportDues ==
    { None, Some(DueEmpty), Some(DueJunk) }
      \cup { Some(DueYmd(StartDay + k)) : k \in { 0 - 5, 0, 3, 4, 20 } }
      \cup { Some(DueYmd(d)) : d \in { 11, 18, 25 } }

\* Ages in days of the drawn rows on the first day.
ReportAges == { 0, 13, 20, 90 }

\* Every open row over the columns the scores read.
SingleRows ==
    { ReportRow("open", s, o, d, a, 0) :
        s \in { None } \cup { Some(v) : v \in Severities },
        o \in { None, Some(""), Some("ana") },
        d \in ReportDues,
        a \in ReportAges }

\* Rows the larger tables are made of.
SampleRows ==
    { ReportRow("open", Some("high"), Some("ana"), Some(DueYmd(StartDay + 3)), 0, 0),
      ReportRow("open", Some("high"), Some("ana"), Some(DueYmd(StartDay + 20)), 13, 0),
      ReportRow("open", Some("high"), Some("ana"), Some(DueYmd(StartDay + 20)), 0, 0),
      ReportRow("open", Some("medium"), None, Some(DueYmd(18)), 20, 0),
      ReportRow("open", Some("critical"), Some(""), Some(DueYmd(StartDay - 5)), 20, 0),
      ReportRow("closed", Some("critical"), Some("bo"), Some(DueYmd(11)), 20, 5),
      ReportRow("closed", Some("high"), Some("Leah"), None, 12, 9),
      ReportRow("open", Some("low"), Some("Unassigned"), None, 90, 0),
      ReportRow("open", Some("high"), Some("ana"), Some(DueJunk), 0, 0),
      ReportRow("open", Some("medium"), Some("bo"), Some(DueYmd(25)), 13, 0) }

ReportTables ==
    { << >> }
      \cup { WithIds(<< r >>) : r \in SingleRows }
      \cup { WithIds(t) : t \in UNION { [1..n -> SampleRows] : n \in 2..MaxRows } }

\* The reports run on a table that is already there, one report to a
\* behaviour.
InitReport ==
    /\ signals \in ReportTables
    /\ lastRowid = Len(signals)
    /\ now = StartClock
    /\ ncmds = MaxCmds - 1
    /\ cmd = [name |-> "none", id |-> 0, args |-> NoOptions]
    /\ out = "none"
    /\ report = NoReport
    /\ procs = NoProcs

NextReport ==
    \/ Tick
    \/ Summary
    \/ \E args \in ListArgs : ExportCsv(args)
    \/ \E args \in ReportArgs : Digest(args)
    \/ \E args \in ReportArgs : Triage(args)
    \/ \E args \in WorkloadArgs : Workload(args)
    \/ \E args \in ReportArgs : Calendar(args)
    \/ \E args \in AuditArgs : Audit(args)
    \/ \E args \in MetricsArgs : Metrics(args)
    \/ \E args \in ReportArgs : Stale(args)
    \/ \E args \in TrendArgs : Trend(args)
    \/ \E args \in ActivityArgs : Activity(args)

SpecReport == InitReport /\ [][NextReport]_vars

\* ---------------------------------------------------- interrupted commands
\* close, reopen and update step by step: the existence check, the UPDATE
\* statement run inside the transaction the sqlite3 module opens for it,
\* conn.commit().  A process that dies before its commit leaves the
\* transaction to be rolled back.

\* The close, reopen and update commands issued to the step-by-step runs.
MutationOps ==
    { [name |-> n, id |-> id, args |-> [note |-> note]] :
        n \in {"close", "reopen"}, id \in TargetIds, note \in NoteArgs }
      \cup { [name |-> "update", id |-> id, args |-> args] :
               id \in TargetIds, args \in UpdateArgs }

\* A process that runs no command, and one that has passed the existence
\* check of `op`.
IdleProc == [pc |-> "idle", op |-> NoOptions, image |-> << >>, stage |-> "idle"]
CheckedProc(op) == [pc |-> "checked", op |-> op, image |-> << >>, stage |-> "checked"]

\* What the command prints instead of going on to its UPDATE statement, or
\* "" when it goes on.
EarlyMessage(op, rows) ==
    IF op.name = "update" /\ ValidationMessage(op.args) # ""
    THEN ValidationMessage(op.args)
    ELSE IF ~Exists(rows, op.id) THEN "Signal not found."
    ELSE IF op.name = "update" /\ Len(Updates(op.args, RowOf(rows, op.id), now)) = 0
    THEN "No updates provided."
    ELSE ""

\* The UPDATE statement of close that sets the status alone.
StatementRowStatusOnly(op, row, t1, t2) ==
    IF op.name = "close" THEN [row EXCEPT !.status = "closed"]
    ELSE IF op.name = "reopen" THEN ReopenedRow(row, op.args.note, t2)
    ELSE UpdatedRow(row, op.args, t1, t2)

\* The one UPDATE statement of the command applied to the row it addresses.
StatementRow(op, row, t1, t2) ==
    IF op.name = "close" THEN ClosedRow(row, op.args.note, t1, t2)
    ELSE IF op.name = "reopen" THEN ReopenedRow(row, op.args.note, t2)
    ELSE UpdatedRow(row, op.args, t1, t2)

\* The table with the statement applied WHERE id = op.id.
StatementTable(op, rows, t1, t2) ==
    [i \in 1..Len(rows) |->
        IF rows[i].id = op.id THEN StatementRow(op, rows[i], t1, t2) ELSE rows[i]]

\* The clock as the command reads it while it builds its statement.
StatementReadings(op) ==
    IF op.name = "close" \/ (op.name = "update" /\ op.args.status = Some("closed"))
    THEN ClockReadings
    ELSE { << now, now >> }

SuccessMessage(op) ==
    IF op.name = "close" THEN "Closed signal."
    ELSE IF op.name = "reopen" THEN "Reopened signal."
    ELSE "Updated signal."

\* A dead writer's transaction kept in part: the status column written.
RollbackTorn(rows, image) ==
    IF Len(image) = 0 THEN rows
    ELSE [i \in 1..Len(rows) |-> [rows[i] EXCEPT !.status = image[i].status]]

\* The table after a process died before conn.commit(): what was committed
\* before, the uncommitted image dropped.
Rollback(rows, image) == rows

\* main() up to the existence check.
CrashStart(op) ==
    /\ ncmds < MaxCmds
    /\ procs[1].pc \in {"idle", "crashed"}
    /\ signals' = init_db(signals)
    /\ cmd' = op
    /\ report' = NoReport
    /\ IF EarlyMessage(op, init_db(signals)) # ""
       THEN /\ out' = EarlyMessage(op, init_db(signals))
            /\ ncmds' = ncmds + 1
            /\ procs' = << IdleProc >>
       ELSE /\ out' = "none"
            /\ ncmds' = ncmds
            /\ procs' = << CheckedProc(op) >>
    /\ UNCHANGED << lastRowid, now >>

\* cur.execute(UPDATE ...): the statement runs in an open transaction.
CrashExecute ==
    /\ procs[1].pc = "checked"
    /\ \E r \in StatementReadings(procs[1].op) :
          /\ procs' = << [procs[1] EXCEPT !.pc = "written", !.stage = "written",
                                          !.image = StatementTable(procs[1].op, signals, r[1], r[2])] >>
          /\ now' = r[2]
    /\ UNCHANGED << signals, lastRowid, ncmds, cmd, out, report >>

\* conn.commit(), conn.close() and the closing print.
CrashCommit ==
    /\ procs[1].pc = "written"
    /\ signals' = procs[1].image
    /\ out' = SuccessMessage(procs[1].op)
    /\ ncmds' = ncmds + 1
    /\ procs' = << IdleProc >>
    /\ UNCHANGED << lastRowid, now, cmd, report >>

\* The process dies after the check or after the statement.
Crash ==
    /\ procs[1].pc \in {"checked", "written"}
    /\ signals' = Rollback(signals, procs[1].image)
    /\ ncmds' = ncmds + 1
    /\ procs' = << [procs[1] EXCEPT !.pc = "crashed", !.image = << >>] >>
    /\ UNCHANGED << lastRowid, now, cmd, out, report >>

\* Tables the step-by-step runs start from: one stored row, or two.
MutationTables ==
    { WithIds(<< r >>) : r \in SampleRows }
      \cup { WithIds(<< r, s >>) : r \in { q \in SampleRows : q.status = "closed" },
                                   s \in { q \in SampleRows : q.owner = None } }

InitCrash ==
    /\ signals \in MutationTables
    /\ lastRowid = Len(signals)
    /\ now = StartClock
    /\ ncmds = MaxCmds - 1
    /\ cmd = [name |-> "none", id |-> 0, args |-> NoOptions]
    /\ out = "none"
    /\ report = NoReport
    /\ procs = << IdleProc >>

NextCrash ==
    \/ Tick
    \/ \E op \in MutationOps : CrashStart(op)
    \/ CrashExecute
    \/ CrashCommit
    \/ Crash

SpecCrash == InitCrash /\ [][NextCrash]_vars

\* ------------------------------------------------ concurrent invocations
\* The commands run side by side: on the stored signal 1 or the missing
\* signal 9, without a note; update sets the status, sets the owner or
\* gives nothing.
ConcOps ==
    { op \in MutationOps :
        /\ op.id \in {1, 9}
        /\ op.name \in {"close", "reopen"} => op.args.note = None
        /\ op.name = "update" =>
              /\ op.id = 1
              /\ op.args \in { [NoArgs EXCEPT !.status = Some("closed")],
                               [NoArgs EXCEPT !.status = Some("open")],
                               [NoArgs EXCEPT !.owner = Some("bo")],
                               [NoArgs EXCEPT !.owner = None] } }

\* A connection has run its UPDATE and not yet committed: it holds the
\* write lock of the database.
LockHeld == \E q \in 1..Len(procs) : procs[q].pc = "written"

\* The invocations that have started and not ended.
InFlight == Cardinality({ q \in 1..Len(procs) : procs[q].pc # "idle" })

\* main() up to the existence check, in process p.  init_db writes, so it
\* waits while another connection holds the lock, or gives up.
ConcStart(p, op) ==
    /\ procs[p].pc = "idle"
    /\ ncmds + InFlight < MaxCmds
    /\ cmd' = op
    /\ report' = NoReport
    /\ IF LockHeld
       THEN /\ signals' = signals
            /\ out' = "database is locked"
            /\ ncmds' = ncmds + 1
            /\ procs' = procs
       ELSE /\ signals' = init_db(signals)
            /\ IF EarlyMessage(op, init_db(signals)) # ""
               THEN /\ out' = EarlyMessage(op, init_db(signals))
                    /\ ncmds' = ncmds + 1
                    /\ procs' = procs
               ELSE /\ out' = out
                    /\ ncmds' = ncmds
                    /\ procs' = [procs EXCEPT ![p] = CheckedProc(op)]
    /\ UNCHANGED << lastRowid, now >>

\* cur.execute(UPDATE ...) in process p: the statement takes the write lock
\* and is evaluated on the rows stored at that moment.
ConcExecute(p) ==
    /\ procs[p].pc = "checked"
    /\ ~LockHeld
    /\ \E r \in StatementReadings(procs[p].op) :
          /\ procs' = [procs EXCEPT ![p] =
                         [@ EXCEPT !.pc = "written", !.stage = "written",
                                   !.image = StatementTable(procs[p].op, signals, r[1], r[2])]]
          /\ now' = r[2]
    /\ UNCHANGED << signals, lastRowid, ncmds, cmd, out, report >>

\* conn.commit() in process p, then conn.close() and the closing print.
ConcCommit(p) ==
    /\ procs[p].pc = "written"
    /\ signals' = procs[p].image
    /\ out' = SuccessMessage(procs[p].op)
    /\ ncmds' = ncmds + 1
    /\ procs' = [procs EXCEPT ![p] = IdleProc]
    /\ UNCHANGED << lastRowid, now, cmd, report >>

\* The UPDATE of process p finds the lock held for longer than the
\* connection waits: the command ends in an error and writes nothing.
ConcBusy(p) ==
    /\ procs[p].pc = "checked"
    /\ LockHeld
    /\ out' = "database is locked"
    /\ ncmds' = ncmds + 1
    /\ procs' = [procs EXCEPT ![p] = IdleProc]
    /\ UNCHANGED << signals, lastRowid, now, cmd, report >>

\* One stored signal, the one the invocations address.
ConcTables == { WithIds(<< r >>) : r \in SampleRows }

InitConc ==
    /\ signals \in ConcTables
    /\ lastRowid = Len(signals)
    /\ now = StartClock
    /\ ncmds = 0
    /\ cmd = [name |-> "none", id |-> 0, args |-> NoOptions]
    /\ out = "none"
    /\ report = NoReport
    /\ procs = [p \in 1..MaxProcs |-> IdleProc]

NextConc ==
    \/ Tick
    \/ \E p \in 1..MaxProcs : \E op \in ConcOps : ConcStart(p, op)
    \/ \E p \in 1..MaxProcs : ConcExecute(p)
    \/ \E p \in 1..MaxProcs : ConcCommit(p)
    \/ \E p \in 1..MaxProcs : ConcBusy(p)

SpecConc == InitConc /\ [][NextConc]_vars

\* ================================================================ claims
IsPrefix(s, t) == Len(s) <= Len(t) /\ SubSeq(t, 1, Len(s)) = s

\* The text of a notes column, NULL read as the empty text.
NotesText(row) == IF row.notes = None THEN << >> ELSE row.notes[1]

\* The step runs the command `name`.
Ran(name) == ncmds' = ncmds + 1 /\ cmd'.name = name

\* The step runs close, reopen or update.
RanMutation == Ran("close") \/ Ran("reopen") \/ Ran("update")

\* Every row but the one addressed is stored as it was.
OthersUnchanged(id) ==
    /\ Len(signals') = Len(signals)
    /\ \A i \in 1..Len(signals) : signals[i].id # id => signals'[i] = signals[i]

IsOpen(id) == Exists(signals, id) /\ RowOf(signals, id).status = "open"

IsClosed(id) == Exists(signals, id) /\ RowOf(signals, id).status = "closed"

\* C1: in every reachable state each signal has closed_at non-null exactly
\* when its status is closed.
C1_ClosedAtIffClosed ==
    \A i \in 1..Len(signals) :
        (signals[i].closed_at # None) <=> (signals[i].status = "closed")

\* A row has been closed by close or update, or the seeded closed row reopened.
C1_Witness ==
    /\ cmd.name \in {"close", "update", "reopen"}
    /\ out \in {"Closed signal.", "Updated signal.", "Reopened signal."}
    /\ Exists(signals, cmd.id)
    /\ \/ RowOf(signals, cmd.id).status = "closed" /\ RowOf(signals, cmd.id).closed_at # None
       \/ cmd.id = 6 /\ RowOf(signals, cmd.id).status = "open"

\* C2: close on an existing open signal stores status closed, a closed_at and
\* an updated_at read from the clock during the operation (updated_at being
\* the last reading), and leaves every other row as it was.
C2_CloseOpenSignal ==
    [][(Ran("close") /\ IsOpen(cmd'.id)) =>
          /\ RowOf(signals', cmd'.id).status = "closed"
          /\ RowOf(signals', cmd'.id).closed_at \in { Some(t) : t \in now..now' }
          /\ RowOf(signals', cmd'.id).updated_at = Some(now')
          /\ OthersUnchanged(cmd'.id)]_vars

\* An open row among several has just been closed.
C2_Witness ==
    /\ cmd.name = "close" /\ out = "Closed signal." /\ cmd.id = 1
    /\ Len(signals) > 1
    /\ RowOf(signals, 1).status = "closed"
    /\ RowOf(signals, 1).updated_at = Some(now)

\* C3: reopen on an existing closed signal stores status open, closed_at NULL
\* and updated_at equal to the time of the operation, and leaves every other
\* row as it was.
C3_ReopenClosedSignal ==
    [][(Ran("reopen") /\ IsClosed(cmd'.id)) =>
          /\ RowOf(signals', cmd'.id).status = "open"
          /\ RowOf(signals', cmd'.id).closed_at = None
          /\ RowOf(signals', cmd'.id).updated_at = Some(now')
          /\ OthersUnchanged(cmd'.id)]_vars

\* The seeded closed row has just been reopened.
C3_Witness ==
    /\ cmd.name = "reopen" /\ out = "Reopened signal." /\ cmd.id = 6
    /\ Len(signals) > 1
    /\ RowOf(signals, 6).status = "open"
    /\ RowOf(signals, 6).closed_at = None

\* C4 as stated: every update, close or reopen applied to an existing signal
\* stores the time of the operation in its updated_at, whatever the arguments.
C4_Original ==
    [][(RanMutation /\ Exists(signals, cmd'.id)) =>
          RowOf(signals', cmd'.id).updated_at = Some(now')]_vars

\* The arguments give an option that update_signal turns into an assignment.
GivesChange(args) ==
    \/ args.title # None \/ args.category # None \/ args.severity # None
    \/ args.owner # None \/ args.due # None \/ args.source # None
    \/ args.tags # None \/ args.status # None \/ args.notes # None
    \/ args.clear_owner \/ args.clear_category \/ args.clear_due
    \/ args.clear_source \/ args.clear_tags \/ args.clear_notes
    \/ Truthy(args.append_note, << >>)

\* An option is given a non-empty value together with its clear flag.
SetAndClearNonEmpty(args) ==
    \/ Truthy(args.owner, "") /\ args.clear_owner
    \/ Truthy(args.category, "") /\ args.clear_category
    \/ Truthy(args.due, DueEmpty) /\ args.clear_due
    \/ Truthy(args.source, "") /\ args.clear_source
    \/ Truthy(args.tags, "") /\ args.clear_tags
    \/ Truthy(args.notes, << >>) /\ args.clear_notes

\* C4 as amended: close, reopen, and an update that gives no non-empty value
\* together with its clear flag and gives at least one change, applied to an
\* existing signal, store the time of the operation in updated_at; an update
\* of an existing signal that gives no change leaves the table as it was.
C4_UpdatedAtRefreshed ==
    [][/\ ((Ran("close") \/ Ran("reopen")) /\ Exists(signals, cmd'.id))
              => RowOf(signals', cmd'.id).updated_at = Some(now')
       /\ (Ran("update") /\ Exists(signals, cmd'.id) /\ ~SetAndClearNonEmpty(cmd'.args))
              => IF GivesChange(cmd'.args)
                 THEN RowOf(signals', cmd'.id).updated_at = Some(now')
                 ELSE signals' = signals /\ out' = "No updates provided."]_vars

\* An update has rewritten a row at a time later than the row's creation.
C4_Witness ==
    /\ cmd.name = "update" /\ out = "Updated signal."
    /\ Exists(signals, cmd.id)
    /\ RowOf(signals, cmd.id).updated_at = Some(now)
    /\ RowOf(signals, cmd.id).created_at < now

\* C5: with a clock that never goes back, every signal has a non-null
\* updated_at that is not before its created_at.
C5_CreatedBeforeUpdated ==
    \A i \in 1..Len(signals) :
        /\ signals[i].updated_at # None
        /\ signals[i].created_at <= signals[i].updated_at[1]

\* A row added at one tick has been mutated at a later tick.
C5_Witness ==
    /\ cmd.name \in {"close", "reopen", "update"}
    /\ Exists(signals, cmd.id)
    /\ RowOf(signals, cmd.id).created_at = StartClock
    /\ RowOf(signals, cmd.id).updated_at = Some(StartClock + 1)

\* C6: no step changes the id or created_at of a stored signal or removes a
\* signal, and no two stored signals share an id.
C6_IdentityKept ==
    [][/\ \A i \in 1..Len(signals) :
             \E j \in 1..Len(signals') :
                 /\ signals'[j].id = signals[i].id
                 /\ signals'[j].created_at = signals[i].created_at
       /\ \A i, j \in 1..Len(signals') :
             signals'[i].id = signals'[j].id => i = j]_vars

\* A second signal has been added, or a row among several has been updated.
C6_Witness ==
    \/ cmd.name = "add" /\ Len(signals) > 1
    \/ cmd.name = "update" /\ out = "Updated signal." /\ Len(signals) > 1

\* C7 as stated: close, reopen or update addressed to an id no row has prints
\* "not found" and leaves the table as it was.
C7_Original ==
    [][(RanMutation /\ ~Exists(signals, cmd'.id)) =>
          (out' = "Signal not found." /\ signals' = signals)]_vars

\* C7 as amended: close, reopen, or an update that gives no non-empty value
\* together with its clear flag, addressed to an id no row has, prints "not
\* found"; an update that does give one prints the message of that check
\* instead; the table is left as it was in both cases.
C7_NotFound ==
    [][(RanMutation /\ ~Exists(signals, cmd'.id)) =>
          /\ signals' = signals
          /\ IF cmd'.name = "update" /\ SetAndClearNonEmpty(cmd'.args)
             THEN out' \in ValidationMessages
             ELSE out' = "Signal not found."]_vars

\* A command addressed to a missing id of a table that has rows was refused.
C7_Witness ==
    /\ out = "Signal not found."
    /\ cmd.name \in {"close", "reopen", "update"}
    /\ Len(signals) > 0
    /\ ~Exists(signals, cmd.id)

\* An option is given any value, the empty string included, together with its
\* clear flag.
SetAndClear(args) ==
    \/ args.owner # None /\ args.clear_owner
    \/ args.category # None /\ args.clear_category
    \/ args.due # None /\ args.clear_due
    \/ args.source # None /\ args.clear_source
    \/ args.tags # None /\ args.clear_tags
    \/ args.notes # None /\ args.clear_notes

\* C8: an update that gives a value, the empty string included, and the clear
\* flag of the same field prints a validation message and leaves the table as
\* it was (stated for an update addressed to a signal that is in the table,
\* where no "not found" report competes with the validation message).
C8_SetAndClearRejected ==
    [][(Ran("update") /\ SetAndClear(cmd'.args) /\ Exists(signals, cmd'.id)) =>
          (out' \in ValidationMessages /\ signals' = signals)]_vars

\* C9 as stated: over every close, reopen and update the notes of each signal
\* before the step are a prefix of its notes after the step.
C9_Original ==
    [][RanMutation =>
          \A i \in 1..Len(signals) :
              IsPrefix(NotesText(signals[i]), NotesText(signals'[i]))]_vars

\* C9 as amended: over every close, every reopen and every update that gives
\* neither --notes nor --clear-notes, the notes of each signal before the step
\* (NULL read as empty) are a prefix of its notes after the step.
C9_NotesGrow ==
    [][(\/ Ran("close")
        \/ Ran("reopen")
        \/ Ran("update") /\ cmd'.args.notes = None /\ ~cmd'.args.clear_notes)
       => \A i \in 1..Len(signals) :
              IsPrefix(NotesText(signals[i]), NotesText(signals'[i]))]_vars

\* A note has been appended to the notes a row already had.
C9_Witness ==
    /\ cmd.name \in {"close", "reopen", "update"}
    /\ Exists(signals, cmd.id)
    /\ Len(NotesText(RowOf(signals, cmd.id))) > 2
    /\ NotesText(RowOf(signals, cmd.id))[2]
           \in {"\n[Closed] ", "\n[Reopened] ", "\n[Update <today>] "}

\* C10: add stores exactly one new signal, with status open, closed_at NULL,
\* created_at and updated_at both the time of the operation, and severity
\* medium when none is given; the rows already stored are left as they were.
C10_AddCreatesOpenSignal ==
    [][Ran("add") =>
          /\ Len(signals') = Len(signals) + 1
          /\ SubSeq(signals', 1, Len(signals)) = signals
          /\ LET new == signals'[Len(signals')]
             IN  /\ new.status = "open"
                 /\ new.closed_at = None
                 /\ new.created_at = now'
                 /\ new.updated_at = Some(now')
                 /\ cmd'.args.severity = None => new.severity = Some("medium")
                 /\ cmd'.args.severity # None => new.severity = cmd'.args.severity]_vars

\* A signal was added without a severity to a table that already had a row.
C10_Witness ==
    /\ cmd.name = "add" /\ out = "Added signal."
    /\ cmd.args.severity = None
    /\ Len(signals) > 1
    /\ signals[Len(signals)].id = cmd.id
    /\ signals[Len(signals)].severity = Some("medium")
    /\ signals[Len(signals)].created_at = now

\* ------------------------------------------------------------ triage score
\* The column is NULL or the empty string.
Absent(v) == v = None \/ v = Some("")

\* The stored row an item of a report is about.
RowOfItem(item) == RowOf(signals, item.id)

WeightOf(row) ==
    IF Absent(row.severity) THEN 2
    ELSE CASE row.severity[1] = "low" -> 1
           [] row.severity[1] = "medium" -> 2
           [] row.severity[1] = "high" -> 3
           [] row.severity[1] = "critical" -> 4

\* The due-date part of the score on day T with window W.
DuePoints(row, T, W) ==
    LET D == parse_date(row.due_date)
    IN  CASE D # None /\ D[1] < T -> 15
          [] D # None /\ 0 <= D[1] - T /\ D[1] - T <= W -> 8
          [] D = None -> 2
          [] OTHER -> 0

AgeOn(row, T) == T - date_of_timestamp(row.created_at)

AgingPoints(row, T) ==
    IF AgeOn(row, T) >= 14
    THEN CHOOSE p \in 0..12 : /\ p <= AgeOn(row, T) \div 7
                              /\ p = 12 \/ p = AgeOn(row, T) \div 7
    ELSE 0

\* The tags of the preset order that apply, in that order.
TagsOf(row, T, W) ==
    LET D == parse_date(row.due_date)
        applies == [tag \in {"overdue", "due soon", "no due date", "unassigned", "aging"} |->
                      CASE tag = "overdue" -> D # None /\ D[1] < T
                        [] tag = "due soon" -> D # None /\ 0 <= D[1] - T /\ D[1] - T <= W
                        [] tag = "no due date" -> D = None
                        [] tag = "unassigned" -> Absent(row.owner)
                        [] tag = "aging" -> AgeOn(row, T) >= 14]
    IN  SelectSeq(<< "overdue", "due soon", "no due date", "unassigned", "aging" >>,
                  LAMBDA tag : applies[tag])

\* The row is critical, was created 20 days ago, was due 5 days ago and has
\* no owner.
IsWorkedExample(row, T) ==
    /\ row.severity = Some("critical")
    /\ AgeOn(row, T) = 20
    /\ parse_date(row.due_date) = Some(T - 5)
    /\ row.owner = None

\* C11: triage gives every open signal the score weight * 10, plus 15 when
\* it is overdue, else 8 when it is due within the window, else 2 when it
\* has no due date, plus 3 when it has no owner, plus min(12, age // 7) when
\* its age is 14 days or more, and the tags that apply in that order; the
\* critical signal created 20 days ago, due 5 days ago, without an owner
\* scores 60 with "overdue, unassigned, aging".
C11_TriageScore ==
    [][Ran("triage") =>
        \A i \in 1..Len(report'.scored) :
            LET item == report'.scored[i]
                row == RowOfItem(item)
                T == today(now)
                W == cmd'.args.days
            IN  /\ row.status = "open"
                /\ item.score = WeightOf(row) * 10 + DuePoints(row, T, W)
                                  + (IF Absent(row.owner) THEN 3 ELSE 0)
                                  + AgingPoints(row, T)
                /\ TagsOf(row, T, W) # << >> => item.reason = TagsOf(row, T, W)
                /\ IsWorkedExample(row, T) =>
                     /\ item.score = 60
                     /\ item.reason = << "overdue", "unassigned", "aging" >>]_vars

C11_Witness ==
    /\ cmd.name = "triage"
    /\ \E i \in 1..Len(report.scored) :
          /\ report.scored[i].severity = "critical"
          /\ report.scored[i].age_days = 20
          /\ report.scored[i].owner = "Unassigned"
          /\ report.scored[i].score = 60
          /\ report.scored[i].reason = << "overdue", "unassigned", "aging" >>

HasTag(item, tag) == \E k \in 1..Len(item.reason) : item.reason[k] = tag

\* C12: a signal whose due date lies beyond the window, that has an owner
\* and is younger than 14 days scores weight * 10 and carries the single
\* tag "recent"; "recent" never comes with another tag and adds nothing to
\* the score.
C12_RecentOnly ==
    [][Ran("triage") =>
        \A i \in 1..Len(report'.scored) :
            LET item == report'.scored[i]
                row == RowOfItem(item)
                D == parse_date(row.due_date)
                T == today(now)
                plain == /\ D # None
                         /\ D[1] > T + cmd'.args.days
                         /\ ~Absent(row.owner)
                         /\ AgeOn(row, T) < 14
            IN  /\ plain => item.score = WeightOf(row) * 10 /\ item.reason = << "recent" >>
                /\ HasTag(item, "recent") =>
                     /\ item.reason = << "recent" >>
                     /\ item.score = WeightOf(row) * 10]_vars

C12_Witness ==
    /\ cmd.name = "triage"
    /\ \E i \in 1..Len(report.scored) :
          /\ report.scored[i].reason = << "recent" >>
          /\ report.scored[i].severity = "high"
          /\ report.scored[i].score = 30

\* C13: triage tags a signal whose due date is before today "overdue" and
\* adds 15 for it; no signal carries more than one of "overdue", "due soon"
\* and "no due date".
C13_OverdueFirst ==
    [][Ran("triage") =>
        \A i \in 1..Len(report'.scored) :
            LET item == report'.scored[i]
                row == RowOfItem(item)
                D == parse_date(row.due_date)
                T == today(now)
            IN  /\ (D # None /\ D[1] < T) =>
                     /\ HasTag(item, "overdue")
                     /\ item.score - 15 = WeightOf(row) * 10
                                            + (IF Absent(row.owner) THEN 3 ELSE 0)
                                            + AgingPoints(row, T)
                /\ Cardinality({ tag \in {"overdue", "due soon", "no due date"} :
                                   HasTag(item, tag) }) <= 1]_vars

C13_Witness ==
    /\ cmd.name = "triage"
    /\ \E i \in 1..Len(report.scored) :
          LET D == parse_date(RowOfItem(report.scored[i]).due_date)
          IN  /\ D # None
              /\ D[1] = today(now) - 1
              /\ HasTag(report.scored[i], "overdue")

\* C14: the triage list holds every open signal exactly once, by score
\* descending and, among equal scores, by age descending: of two adjacent
\* rows the earlier has the greater or equal (score, age_days) pair.
C14_TriageOrder ==
    [][Ran("triage") =>
        LET scored == report'.scored
        IN  /\ \A i \in 1..(Len(scored) - 1) :
                 \/ scored[i].score > scored[i + 1].score
                 \/ /\ scored[i].score = scored[i + 1].score
                    /\ scored[i].age_days >= scored[i + 1].age_days
            /\ \A r \in 1..Len(signals) :
                 Cardinality({ i \in 1..Len(scored) : scored[i].id = signals[r].id })
                   = IF signals[r].status = "open" THEN 1 ELSE 0
            /\ \A i \in 1..Len(scored) : Exists(signals, scored[i].id)]_vars

\* Two signals of one score come out oldest first although the younger was
\* selected first.
C14_Witness ==
    /\ cmd.name = "triage"
    /\ Len(report.scored) >= 2
    /\ \E i \in 1..(Len(report.scored) - 1) :
          /\ report.scored[i].score = report.scored[i + 1].score
          /\ report.scored[i].age_days > report.scored[i + 1].age_days
          /\ RowOfItem(report.scored[i]).created_at
               < RowOfItem(report.scored[i + 1]).created_at

\* ------------------------------------------------------ workload, calendar
\* The owner bucket a signal belongs to.
BucketKey(row) == IF Absent(row.owner) THEN "Unassigned" ELSE row.owner[1]

OpenIndexes == { r \in 1..Len(signals) : signals[r].status = "open" }

RECURSIVE SumOpen(_)
SumOpen(rows_out) ==
    IF Len(rows_out) = 0 THEN 0 ELSE rows_out[1].open + SumOpen(Tail(rows_out))

\* C15: workload counts every open signal in exactly one owner bucket, a
\* NULL or empty owner under "Unassigned"; the open counts of the buckets
\* add up to the number of open signals and no closed signal is counted.
C15_WorkloadPartition ==
    [][Ran("workload") =>
        LET rows_out == report'.rows_out
        IN  /\ \A i, j \in 1..Len(rows_out) : rows_out[i].owner = rows_out[j].owner => i = j
            /\ \A r \in OpenIndexes :
                 \E i \in 1..Len(rows_out) : rows_out[i].owner = BucketKey(signals[r])
            /\ \A i \in 1..Len(rows_out) :
                 rows_out[i].open =
                   Cardinality({ r \in OpenIndexes : BucketKey(signals[r]) = rows_out[i].owner })
            /\ SumOpen(rows_out) = Cardinality(OpenIndexes)]_vars

\* A NULL owner and an empty owner counted together.
C15_Witness ==
    /\ cmd.name = "workload"
    /\ \E i \in 1..Len(report.rows_out) :
          /\ report.rows_out[i].owner = "Unassigned"
          /\ report.rows_out[i].open = 2
    /\ \E r, s \in OpenIndexes : signals[r].owner = None /\ signals[s].owner = Some("")

\* The open signals due on a Wednesday.
WednesdayIndexes ==
    { r \in OpenIndexes : /\ parse_date(signals[r].due_date) # None
                          /\ (parse_date(signals[r].due_date)[1] - 18) % 7 = 0 }

\* The calendar lists row r in the week section keyed by the Monday two
\* days before its due date.
InMondayWeek(sections, r) ==
    \E k \in 1..Len(sections) :
        /\ sections[k].label = "Week of"
        /\ sections[k].week = parse_date(signals[r].due_date)[1] - 2
        /\ \E n \in 1..Len(sections[k].rows) : sections[k].rows[n] = signals[r].id

InSomeWeek(sections, r) ==
    \E k \in 1..Len(sections) :
        /\ sections[k].label = "Week of"
        /\ \E n \in 1..Len(sections[k].rows) : sections[k].rows[n] = signals[r].id

\* C16 as stated: whatever the horizon, an open signal due on a Wednesday
\* is in the weekly bucket keyed by the Monday of that week.
C16_Original ==
    [][Ran("calendar") =>
        \A r \in WednesdayIndexes : InMondayWeek(report'.sections, r)]_vars

\* C16: an open signal due on a Wednesday after today and no later than the
\* horizon is in the weekly bucket keyed by the Monday of that week; one due
\* on a Wednesday that is today or earlier, or beyond the horizon, is in no
\* weekly bucket.
C16_WednesdayWeek ==
    [][Ran("calendar") =>
        \A r \in WednesdayIndexes :
            LET D == parse_date(signals[r].due_date)[1]
                T == today(now)
            IN  IF T < D /\ D <= T + cmd'.args.days
                THEN InMondayWeek(report'.sections, r)
                ELSE ~InSomeWeek(report'.sections, r)]_vars

\* The signal due on Wednesday 2026-02-18 listed under Monday 2026-02-16.
C16_Witness ==
    /\ cmd.name = "calendar"
    /\ \E r \in WednesdayIndexes :
          /\ signals[r].due_date = Some(DueYmd(18))
          /\ \E k \in 1..Len(report.sections) :
                /\ report.sections[k].label = "Week of"
                /\ report.sections[k].week = 16
                /\ \E n \in 1..Len(report.sections[k].rows) :
                      report.sections[k].rows[n] = signals[r].id

\* ------------------------------------------------------------ empty table
\* What each report command prints when it has selected no row.
NoneFound ==
    [list |-> "No signals found.",
     summary |-> "(none)",
     export |-> "No signals found to export.",
     digest |-> "No signals found.",
     triage |-> "No open signals found.",
     workload |-> "No open signals found.",
     calendar |-> "No open signals found.",
     audit |-> "No open signals found.",
     metrics |-> "No signals found.",
     stale |-> "No open signals found."]

\* C17: on an empty table each of list, summary, export, digest, triage,
\* workload, calendar, audit, metrics and stale prints its "none found"
\* message and returns, the table still empty.
C17_EmptyTableReports ==
    [][\A name \in DOMAIN NoneFound :
          (Ran(name) /\ Len(signals) = 0) =>
              /\ out' = NoneFound[name]
              /\ Len(signals') = 0]_vars

C17_Witness ==
    /\ cmd.name = "calendar"
    /\ Len(signals) = 0
    /\ out = "No open signals found."
    /\ report.open = 0

\* ---------------------------------------------------------- CSV round trip
\* A field of a nullable column read back from CSV, the empty field taken
\* as NULL ("null") or as the empty text ("empty").
ReadField(field, empty, convention) ==
    IF field = empty /\ convention = "null" THEN None ELSE Some(field)

\* A CSV record read back as a row.
ReadRecord(rec, convention) ==
    [id |-> rec.id.digits, title |-> rec.title,
     category |-> ReadField(rec.category, "", convention),
     severity |-> ReadField(rec.severity, "", convention),
     owner |-> ReadField(rec.owner, "", convention),
     due_date |-> ReadField(rec.due_date, DueEmpty, convention),
     status |-> rec.status,
     notes |-> ReadField(rec.notes, << >>, convention),
     source |-> ReadField(rec.source, "", convention),
     tags |-> ReadField(rec.tags, "", convention),
     created_at |-> rec.created_at[1],
     closed_at |-> IF Len(rec.closed_at) = 0 THEN None ELSE Some(rec.closed_at[1]),
     updated_at |-> IF Len(rec.updated_at) = 0 THEN None ELSE Some(rec.updated_at[1])]

\* C18: the rows an export selects are got back from its CSV field for
\* field, NULL fields as NULL and empty-string fields as empty strings, by
\* reading an empty CSV field one way or the other.
C18_CsvRoundTrip ==
    [][Ran("export") =>
        \E convention \in {"null", "empty"} :
            { ReadRecord(report'.records[i], convention) : i \in 1..Len(report'.records) }
              = { signals'[r] : r \in { k \in 1..Len(signals') :
                                          MatchesFilters(signals'[k], cmd'.args) } }]_vars

\* ------------------------------------------------------- trend, activity
\* The Monday on or before `day` (2026-02-02 is a Monday).
MondayOf(day) == CHOOSE m \in (day - 6)..day : (m - 2) % 7 = 0

\* The rows whose timestamp column, when set, dates from first..last.
DatedIn(column, first, last) ==
    { r \in 1..Len(signals) :
        LET ts == IF column = "created_at" THEN Some(signals[r].created_at)
                  ELSE signals[r][column]
        IN  /\ ts # None
            /\ first <= ts[1] \div TicksPerDay
            /\ ts[1] \div TicksPerDay <= last }

\* The rows closed on `day` or before.
ClosedBy(day) ==
    { r \in 1..Len(signals) : /\ signals[r].closed_at # None
                              /\ signals[r].closed_at[1] \div TicksPerDay <= day }

\* C19: trend with N weeks and an as-of date gives one row for each of the
\* N Monday-anchored weeks that end with the week of the as-of date; a
\* week's created count is the number of signals created in it, its closed
\* count the number closed in it, its open count the number created in it
\* and not closed by its end.
C19_TrendRows ==
    [][(Ran("trend") /\ Len(signals) > 0) =>
        LET rows == report'.rows
            last == MondayOf(cmd'.args.as_of)
        IN  /\ Len(rows) = cmd'.args.weeks
            /\ { rows[k].week : k \in 1..Len(rows) }
                 = { last - 7 * n : n \in 0..(cmd'.args.weeks - 1) }
            /\ \A k \in 1..Len(rows) :
                 LET w == rows[k].week
                 IN  /\ rows[k].created = Cardinality(DatedIn("created_at", w, w + 6))
                     /\ rows[k].closed = Cardinality(DatedIn("closed_at", w, w + 6))
                     /\ rows[k].open =
                          Cardinality(DatedIn("created_at", w, w + 6) \ ClosedBy(w + 6))]_vars

\* A week in which a signal was created and closed, after a week whose
\* signal is still open.
C19_Witness ==
    /\ cmd.name = "trend"
    /\ Len(report.rows) = 3
    /\ \E k \in 1..3 : report.rows[k].created = 1 /\ report.rows[k].closed = 1
                         /\ report.rows[k].open = 0
    /\ \E k \in 1..3 : report.rows[k].created = 1 /\ report.rows[k].closed = 0
                         /\ report.rows[k].open = 1

\* C20: activity with a window of D days counts the signals created, the
\* signals updated and the signals closed within the last D days, the open
\* signals due before today, and the open signals due from today to D days
\* ahead.
C20_ActivityCounts ==
    [][(Ran("activity") /\ Len(signals) > 0) =>
        LET T == today(now)
            D == cmd'.args.days
            due(r) == parse_date(signals[r].due_date)
        IN  /\ report'.counts.created = Cardinality(DatedIn("created_at", T - D, T))
            /\ report'.counts.updated = Cardinality(DatedIn("updated_at", T - D, T))
            /\ report'.counts.closed = Cardinality(DatedIn("closed_at", T - D, T))
            /\ report'.counts.open_overdue =
                 Cardinality({ r \in OpenIndexes : due(r) # None /\ due(r)[1] < T })
            /\ report'.counts.open_due_soon =
                 Cardinality({ r \in OpenIndexes :
                                 /\ due(r) # None
                                 /\ 0 <= due(r)[1] - T
                                 /\ due(r)[1] - T <= D })]_vars

\* A signal closed on the first day of the window, created before the
\* window, beside an open signal that is overdue or due soon.
C20_Witness ==
    /\ cmd.name = "activity"
    /\ Len(signals) > 0
    /\ report.counts.closed = 1
    /\ report.counts.created < Len(signals)
    /\ report.counts.open_overdue + report.counts.open_due_soon >= 1
    /\ \E r \in 1..Len(signals) :
          /\ signals[r].closed_at # None
          /\ signals[r].closed_at[1] \div TicksPerDay = today(now) - cmd.args.days

\* ------------------------------------------------------ interrupted commands
ClosedAtMatches(row) == row.closed_at # None <=> row.status = "closed"

\* C21: whenever close, reopen or update is interrupted, each stored signal
\* is as it was before the command or as the whole command leaves it: the
\* status never changes without closed_at following it and updated_at
\* taking the time of the command.
C21_CrashAtomic ==
    [][/\ Len(signals') = Len(signals)
       /\ \A i \in 1..Len(signals) :
            LET before == init_db(signals)[i]
                after == signals'[i]
            IN  \/ after = before
                \/ /\ procs[1].pc = "written"
                   /\ procs'[1].pc = "idle"
                   /\ after = procs[1].image[i]
                   /\ after.id = cmd.id
                   /\ after.updated_at # None
                   /\ after.updated_at[1] \in StartClock..now
                   /\ ClosedAtMatches(before) => ClosedAtMatches(after)
                   /\ after.status # before.status => after.closed_at # before.closed_at]_vars

\* A close that died after its UPDATE statement: the signal is still open.
C21_Witness ==
    /\ procs[1].pc = "crashed"
    /\ procs[1].stage = "written"
    /\ procs[1].op.name = "close"
    /\ Exists(signals, procs[1].op.id)
    /\ RowOf(signals, procs[1].op.id).status = "open"
    /\ RowOf(signals, procs[1].op.id).closed_at = None

\* ------------------------------------------------- malformed due dates
\* The open signals whose due_date holds a text that is no date.
MalformedOpen ==
    { r \in OpenIndexes : signals[r].due_date # None /\ signals[r].due_date[1].fmt = "junk" }

Listed(ids, id) == \E k \in 1..Len(ids) : ids[k] = id

\* The open signals without a date a report can compare.
UndatedOpen == { r \in OpenIndexes : parse_date(signals[r].due_date) = None }

\* C22: every report treats an open signal whose due_date is malformed as
\* one without a due date: triage tags it "no due date" and neither
\* "overdue" nor "due soon", workload counts it under no-due, calendar lists
\* it under "No Due Date", digest lists it neither as overdue nor as due
\* soon, audit lists it under "Missing due date" and not as overdue, and
\* metrics counts it neither as overdue nor as due soon.
C22_MalformedAsNoDue ==
    [][\A r \in MalformedOpen :
         LET id == signals[r].id
         IN  /\ Ran("triage") =>
                  \A i \in 1..Len(report'.scored) :
                      report'.scored[i].id = id =>
                          /\ HasTag(report'.scored[i], "no due date")
                          /\ ~HasTag(report'.scored[i], "overdue")
                          /\ ~HasTag(report'.scored[i], "due soon")
             /\ Ran("workload") =>
                  \A i \in 1..Len(report'.rows_out) :
                      LET mine == { q \in OpenIndexes :
                                      BucketKey(signals[q]) = report'.rows_out[i].owner }
                      IN  report'.rows_out[i].no_due = Cardinality(mine \cap UndatedOpen)
             /\ Ran("calendar") =>
                  \E k \in 1..Len(report'.sections) :
                      /\ report'.sections[k].label = "No Due Date"
                      /\ Listed(report'.sections[k].rows, id)
             /\ Ran("digest") =>
                  ~Listed(report'.overdue, id) /\ ~Listed(report'.due_soon, id)
             /\ Ran("audit") =>
                  Listed(report'.missing_due, id) /\ ~Listed(report'.overdue, id)
             /\ Ran("metrics") =>
                  report'.open_overdue + report'.open_due_soon
                      <= Cardinality(OpenIndexes \ UndatedOpen)]_vars

\* ------------------------------------------------------ calendar buckets
\* The section of the calendar an open signal belongs to on day T with the
\* horizon day H; a weekly bucket is named by its Monday.
BucketOf(row, T, H) ==
    LET D == parse_date(row.due_date)
    IN  CASE D = None -> << "No Due Date", 0 >>
          [] D # None /\ D[1] < T -> << "Overdue Signals", 0 >>
          [] D # None /\ D[1] = T -> << "Due Today", 0 >>
          [] D # None /\ T < D[1] /\ D[1] <= H -> << "Week of", MondayOf(D[1]) >>
          [] D # None /\ D[1] > H -> << "Beyond", 0 >>

\* The places (section, position) where the calendar lists the id.
PlacesOf(sections, id) ==
    { p \in UNION { { << k, n >> : n \in 1..Len(sections[k].rows) } : k \in 1..Len(sections) } :
        sections[p[1]].rows[p[2]] = id }

\* C23: the calendar lists every open signal in exactly one section, and
\* that section is overdue when due < today, due today when due = today,
\* the week of the Monday on or before the due date when
\* today < due <= today + horizon, beyond when due > today + horizon, and
\* no due date otherwise; no closed signal is listed.
C23_CalendarPartition ==
    [][Ran("calendar") =>
        LET sections == report'.sections
            T == today(now)
            H == T + cmd'.args.days
        IN  /\ \A r \in OpenIndexes :
                 /\ Cardinality(PlacesOf(sections, signals[r].id)) = 1
                 /\ \A p \in PlacesOf(sections, signals[r].id) :
                      << sections[p[1]].label, sections[p[1]].week >> = BucketOf(signals[r], T, H)
            /\ \A k \in 1..Len(sections) : \A n \in 1..Len(sections[k].rows) :
                 \E r \in OpenIndexes : signals[r].id = sections[k].rows[n]
            /\ \A k, j \in 1..Len(sections) :
                 (sections[k].label = sections[j].label /\ sections[k].week = sections[j].week)
                    => k = j]_vars

\* A calendar of two open signals, one overdue and one in a weekly bucket.
C23_Witness ==
    /\ cmd.name = "calendar"
    /\ Len(report.sections) = 2
    /\ report.sections[1].label = "Overdue Signals"
    /\ report.sections[2].label = "Week of"
    /\ \A r \in 1..Len(signals) :
          signals[r].status = "open" /\ Cardinality(PlacesOf(report.sections, signals[r].id)) = 1

\* The place of a section in the calendar's print order.
SectionRank(label) ==
    CASE label = "Overdue Signals" -> 1
      [] label = "Due Today" -> 2
      [] label = "Week of" -> 3
      [] label = "Beyond" -> 4
      [] label = "No Due Date" -> 5

DueDayOf(id) == parse_date(RowOf(signals, id).due_date)[1]

\* C24: the calendar prints overdue, then due today, then the weekly
\* buckets in strictly ascending order of their week start, then beyond,
\* then no due date; inside an overdue, weekly or beyond bucket the due
\* dates never decrease.
C24_CalendarOrder ==
    [][Ran("calendar") =>
        LET sections == report'.sections
        IN  /\ \A k, j \in 1..Len(sections) :
                 k < j =>
                    \/ SectionRank(sections[k].label) < SectionRank(sections[j].label)
                    \/ /\ sections[k].label = "Week of"
                       /\ sections[j].label = "Week of"
                       /\ sections[k].week < sections[j].week
            /\ \A k \in 1..Len(sections) :
                 sections[k].label \in {"Overdue Signals", "Week of", "Beyond"} =>
                    \A n, m \in 1..Len(sections[k].rows) :
                        n < m => DueDayOf(sections[k].rows[n]) <= DueDayOf(sections[k].rows[m])]_vars

\* Two weekly buckets printed in order although the signal of the later
\* week is the one the query returned first.
C24_Witness ==
    /\ cmd.name = "calendar"
    /\ Len(report.sections) = 2
    /\ report.sections[1].label = "Week of"
    /\ report.sections[2].label = "Week of"
    /\ report.sections[1].week < report.sections[2].week
    /\ Len(signals) = 2
    /\ signals[1].created_at < signals[2].created_at
    /\ report.sections[1].rows = << signals[1].id >>

\* --------------------------------------------------------------- digest
\* The ids a report lists, as a set.
IdSet(ids) == { ids[k] : k \in 1..Len(ids) }

\* C25: the digest lists as overdue exactly the open signals with
\* due < today, as due soon exactly the open signals with
\* 0 <= due - today <= window, no signal in both and no closed signal in
\* either, and as recent exactly the signals, open or closed, created on
\* or after today - window.
C25_DigestSets ==
    [][Ran("digest") =>
        LET T == today(now)
            W == cmd'.args.days
            due(r) == parse_date(signals[r].due_date)
        IN  /\ IdSet(report'.overdue) =
                  { signals[r].id : r \in { q \in OpenIndexes : due(q) # None /\ due(q)[1] < T } }
            /\ IdSet(report'.due_soon) =
                  { signals[r].id : r \in { q \in OpenIndexes :
                        due(q) # None /\ 0 <= due(q)[1] - T /\ due(q)[1] - T <= W } }
            /\ IdSet(report'.overdue) \cap IdSet(report'.due_soon) = {}
            /\ \A r \in 1..Len(signals) :
                  signals[r].status = "closed" =>
                      signals[r].id \notin IdSet(report'.overdue) \cup IdSet(report'.due_soon)
            /\ IdSet(report'.recent) =
                  { signals[r].id : r \in { q \in 1..Len(signals) :
                        signals[q].created_at \div TicksPerDay >= T - W } }
            /\ Len(report'.overdue) = Cardinality(IdSet(report'.overdue))
            /\ Len(report'.due_soon) = Cardinality(IdSet(report'.due_soon))
            /\ Len(report'.recent) = Cardinality(IdSet(report'.recent))]_vars

\* A digest with one overdue open signal and one closed signal, created
\* inside the window, that is listed as recent only.
C25_Witness ==
    /\ cmd.name = "digest"
    /\ Len(report.overdue) = 1
    /\ \E r \in 1..Len(signals) :
          /\ signals[r].status = "closed"
          /\ signals[r].id \in IdSet(report.recent)
          /\ signals[r].id \notin IdSet(report.overdue) \cup IdSet(report.due_soon)

\* ------------------------------------------------------ stored severities
\* C26: whatever add, seed, update, close and reopen commands ran since the
\* table was empty, every stored severity is one of low, medium, high,
\* critical and never NULL; an audit lists no signal under "Missing
\* severity" and every triage item carries the stored severity, not the
\* fallback.
C26_SeverityKnown ==
    /\ \A i \in 1..Len(signals) :
          signals[i].severity # None /\ signals[i].severity[1] \in Severities
    /\ (cmd.name = "audit" /\ report.open > 0) => report.missing_severity = << >>
    /\ cmd.name = "triage" =>
          \A i \in 1..Len(report.scored) :
              Some(report.scored[i].severity) = RowOfItem(report.scored[i]).severity

\* An audit of a table whose one signal was added without a severity.
C26_Witness ==
    /\ cmd.name = "audit"
    /\ report.open = 1
    /\ report.missing_severity = << >>
    /\ Len(report.missing_category) = 1
    /\ Len(signals) = 1
    /\ signals[1].severity = Some(DEFAULT_SEVERITY)

\* ------------------------------------------------ repeated close / reopen
\* C27: close on a signal that is already closed is accepted and stores a
\* closed_at read from the clock during this operation (and updated_at, the
\* last reading); reopen on a signal that is already open is accepted,
\* leaves status open and closed_at NULL, and stores the time of the
\* operation in updated_at.
C27_RepeatedCloseReopen ==
    [][/\ (Ran("close") /\ IsClosed(cmd'.id)) =>
             /\ out' = "Closed signal."
             /\ RowOf(signals', cmd'.id).status = "closed"
             /\ RowOf(signals', cmd'.id).closed_at \in { Some(t) : t \in now..now' }
             /\ RowOf(signals', cmd'.id).updated_at = Some(now')
       /\ (Ran("reopen") /\ IsOpen(cmd'.id)) =>
             /\ out' = "Reopened signal."
             /\ RowOf(signals', cmd'.id).status = "open"
             /\ RowOf(signals', cmd'.id).closed_at = None
             /\ RowOf(signals', cmd'.id).updated_at = Some(now')]_vars

\* The seeded row that was closed five days before has been closed again:
\* its closed_at is of today.
C27_Witness ==
    /\ cmd.name = "close" /\ out = "Closed signal." /\ cmd.id = 6
    /\ ncmds = 2
    /\ Len(signals) > 1
    /\ RowOf(signals, 6).status = "closed"
    /\ RowOf(signals, 6).closed_at # None
    /\ RowOf(signals, 6).closed_at[1] >= StartClock

\* -------------------------------------------------- counts across reports
\* The open signals overdue on the day of `now`, and those due within W
\* days of it.
OverdueCount ==
    Cardinality({ r \in OpenIndexes :
                    /\ parse_date(signals[r].due_date) # None
                    /\ parse_date(signals[r].due_date)[1] < today(now) })

DueSoonCount(W) ==
    Cardinality({ r \in OpenIndexes :
                    /\ parse_date(signals[r].due_date) # None
                    /\ 0 <= parse_date(signals[r].due_date)[1] - today(now)
                    /\ parse_date(signals[r].due_date)[1] - today(now) <= W })

RECURSIVE SumField(_, _)
SumField(rows_out, field) ==
    IF Len(rows_out) = 0 THEN 0
    ELSE rows_out[1][field] + SumField(Tail(rows_out), field)

RECURSIVE ListedUnder(_, _)
ListedUnder(sections, label) ==
    IF Len(sections) = 0 THEN 0
    ELSE (IF sections[1].label = label THEN Len(sections[1].rows) ELSE 0)
            + ListedUnder(Tail(sections), label)

\* The number of overdue signals a report shows, read off what it computed.
ReportedOverdue(name, rep) ==
    CASE name = "triage" -> rep.overdue
      [] name = "workload" -> SumField(rep.rows_out, "overdue")
      [] name = "digest" -> Len(rep.overdue)
      [] name = "calendar" -> ListedUnder(rep.sections, "Overdue Signals")
      [] name = "audit" -> IF rep.open = 0 THEN 0 ELSE Len(rep.overdue)
      [] name = "metrics" -> IF rep.total = 0 THEN 0 ELSE rep.open_overdue

\* The number of signals due soon a report shows.
ReportedDueSoon(name, rep) ==
    CASE name = "triage" -> rep.due_soon
      [] name = "workload" -> SumField(rep.rows_out, "due_soon")
      [] name = "digest" -> Len(rep.due_soon)
      [] name = "metrics" -> IF rep.total = 0 THEN 0 ELSE rep.open_due_soon

\* What the report `name` computes on the stored table at the present time
\* with the due-soon window W.
ReportOn(name, W) ==
    CASE name = "triage" -> TriageReport(init_db(signals), now, [days |-> W, limit |-> 10])
      [] name = "workload" -> WorkloadReport(init_db(signals), now, [days |-> W])
      [] name = "digest" -> DigestReport(init_db(signals), now, [days |-> W, limit |-> 10])
      [] name = "calendar" -> CalendarReport(init_db(signals), now, [days |-> W, limit |-> 10])
      [] name = "audit" -> AuditReport(init_db(signals), now, [limit |-> 10, stale_days |-> 21])
      [] name = "metrics" ->
            MetricsReport(init_db(signals), now, [due_days |-> W, limit |-> 8, stale_days |-> 14])

OverdueReports == {"triage", "workload", "digest", "calendar", "audit", "metrics"}

DueSoonReports == {"triage", "workload", "digest", "metrics"}

\* The windows a run of the report stands for: its own, or any when the
\* report takes none.
WindowsOf(name, args) ==
    IF name = "metrics" THEN { args.due_days }
    ELSE IF name \in {"triage", "workload", "digest"} THEN { args.days }
    ELSE ReportWindows

\* C28: on one table, one day and one window, triage, workload (summed over
\* the owners), digest, calendar, audit and metrics show the same number of
\* overdue open signals, and triage, workload, digest and metrics the same
\* number of signals due soon: the report that ran shows these numbers, and
\* so does each of the others computed on the same table at the same time.
C28_CountsAgree ==
    [][\A name \in OverdueReports :
         Ran(name) =>
            \A W \in WindowsOf(name, cmd'.args) :
                /\ ReportedOverdue(name, report') = OverdueCount
                /\ name \in DueSoonReports => ReportedDueSoon(name, report') = DueSoonCount(W)
                /\ \A other \in OverdueReports :
                      ReportedOverdue(other, ReportOn(other, W)) = OverdueCount
                /\ \A other \in DueSoonReports :
                      ReportedDueSoon(other, ReportOn(other, W)) = DueSoonCount(W)]_vars

\* Workload ran on two owners' signals, one overdue and one due soon, and
\* metrics counts the same on that table.
C28_Witness ==
    /\ cmd.name = "workload"
    /\ Len(report.rows_out) = 2
    /\ SumField(report.rows_out, "overdue") = 1
    /\ SumField(report.rows_out, "due_soon") = 1
    /\ ReportOn("metrics", cmd.args.days).open_overdue = 1
    /\ ReportOn("metrics", cmd.args.days).open_due_soon = 1
    /\ Len(ReportOn("audit", cmd.args.days).overdue) = 1

\* ------------------------------------------------------------ score range
\* C30: every triage score is an integer from 10 to 70, and what the age
\* adds to it, the score less the severity, due-date and owner parts, is
\* from 0 to 12.
C30_ScoreRange ==
    [][Ran("triage") =>
        \A i \in 1..Len(report'.scored) :
            LET item == report'.scored[i]
                row == RowOfItem(item)
                rest == WeightOf(row) * 10 + DuePoints(row, today(now), cmd'.args.days)
                          + (IF Absent(row.owner) THEN 3 ELSE 0)
            IN  /\ item.score \in 10..70
                /\ item.score - rest \in 0..12]_vars

\* A critical, overdue, unassigned signal more than thirteen weeks old
\* scores 70.
C30_Witness ==
    /\ cmd.name = "triage"
    /\ \E i \in 1..Len(report.scored) :
          /\ report.scored[i].score = 70
          /\ report.scored[i].age_days >= 91

\* ------------------------------------------------ concurrent invocations
\* C29: however close, reopen and update invocations on one signal
\* interleave, each an existence check followed by one UPDATE statement,
\* every stored signal has closed_at set exactly when its status is closed,
\* in the committed table and in what a connection is about to commit.
C29_ConcurrentClosedAt ==
    /\ \A i \in 1..Len(signals) : ClosedAtMatches(signals[i])
    /\ \A p \in 1..Len(procs) :
          \A i \in 1..Len(procs[p].image) : ClosedAtMatches(procs[p].image[i])

\* Two invocations on signal 1 in flight at once: a close that has run its
\* UPDATE and not committed, and a reopen that passed its check while the
\* signal was still stored open.
C29_Witness ==
    /\ Len(procs) >= 2
    /\ procs[1].pc = "written" /\ procs[1].op.name = "close" /\ procs[1].op.id = 1
    /\ procs[2].pc = "checked" /\ procs[2].op.name = "reopen" /\ procs[2].op.id = 1
    /\ signals[1].status = "open"
    /\ procs[1].image[1].status = "closed"

====
